---- MODULE Spec2Model ----
(***************************************************************************)
(* Retrieval core of the lexical-graph toolkit.                            *)
(*                                                                         *)
(* Part 1  CompositeTraversalBasedRetriever: construction, derivation of   *)
(*         the sub-retrievers' configuration, fan-out over subqueries and  *)
(*         weighted sub-retrievers, merge of the partial results.          *)
(* Part 2  SemanticGuidedRetriever and the embedding cache its initial     *)
(*         retrievers share.                                               *)
(* Part 3  KeywordRankingSearch: keyword extraction, grouping by number of *)
(*         matched keywords, ranking, limit.                               *)
(***************************************************************************)
EXTENDS Integers, Sequences, FiniteSets, TLC

(***************************************************************************)
(* Bounds of the model.                                                    *)
(***************************************************************************)
\* largest value of args.max_subqueries that is explored
MaxSubqueriesBound == 2
\* longest list of retrievers handed to the composite's constructor
MaxRetrievers == 2

(***************************************************************************)
(* Program constants.                                                      *)
(***************************************************************************)
\* ProcessorArgs: kwargs.get('max_search_results', 20)
DefaultMaxSearchResults == 20
\* ProcessorArgs: kwargs.get('max_subqueries', 2)
DefaultMaxSubqueries == 2

(***************************************************************************)
(* Values.                                                                 *)
(***************************************************************************)
\* statement identifiers held by the lexical graph
Statements == {"S1", "S2", "S3"}

\* lists of statements one sub-retriever may return for one query
Batches ==
    { <<>>, <<"S2">>, <<"S1", "S2">>, <<"S2", "S3">>, <<"S3", "S3">> }

\* weights as exact fractions num/den (dyadic, so that the float product
\* max_search_results * weight of the code is exact)
Weights ==
    { [num |-> 1, den |-> 4], [num |-> 1, den |-> 2],
      [num |-> 1, den |-> 1], [num |-> 3, den |-> 2] }

\* WeightedTraversalBasedRetriever.weight: float = 1.0
DefaultWeight == [num |-> 1, den |-> 1]

\* the weight slot of a list entry that is not a WeightedTraversalBasedRetriever
NoWeight == [num |-> 0, den |-> 1]

Rerankers == {"tfidf", "model"}

MaxSearchResultsChoices == {3, DefaultMaxSearchResults}

\* ProcessorArgs.__init__ with no kwargs (the fields the composite reads)
ProcessorArgs ==
    [ max_search_results |-> DefaultMaxSearchResults,
      reranker           |-> "tfidf",
      derive_subqueries  |-> FALSE,
      max_subqueries     |-> DefaultMaxSubqueries ]

\* configuration an already-constructed sub-retriever instance was built with
InstanceArgs ==
    { [max_search_results |-> DefaultMaxSearchResults, reranker |-> "model"],
      [max_search_results |-> 5, reranker |-> "tfidf"] }

\* TraversalBasedRetrieverType: a retriever class, or a constructed instance
RetrieverClass(cls) ==
    [ isInstance |-> FALSE, cls |-> cls,
      args |-> [max_search_results |-> 0, reranker |-> "unset"] ]

RetrieverInstance(cls, a) ==
    [ isInstance |-> TRUE, cls |-> cls, args |-> a ]

RetrieverTypes ==
    { RetrieverClass("ChunkBasedSearch") }
      \cup { RetrieverInstance("ChunkBasedSearch", a) : a \in InstanceArgs }

\* WeightedTraversalBasedRetriever(retriever, weight)
WeightedTraversalBasedRetriever(r, w) ==
    [ isWeighted |-> TRUE, retriever |-> r, weight |-> w ]

\* a list entry that is a bare retriever class or instance
BareRetriever(r) ==
    [ isWeighted |-> FALSE, retriever |-> r, weight |-> NoWeight ]

\* WeightedTraversalBasedRetrieverType
WeightedRetrieverTypes ==
    { WeightedTraversalBasedRetriever(r, w) : r \in RetrieverTypes, w \in Weights }
      \cup { BareRetriever(r) : r \in RetrieverTypes }

DEFAULT_TRAVERSAL_BASED_RETRIEVERS ==
    << WeightedTraversalBasedRetriever(RetrieverClass("ChunkBasedSearch"), DefaultWeight),
       WeightedTraversalBasedRetriever(RetrieverClass("EntityNetworkSearch"), DefaultWeight) >>

SeqsUpTo(S, n) == UNION { [1..k -> S] : k \in 0..n }

Range(s) == { s[k] : k \in DOMAIN s }

\* the query handed to do_graph_search is 0; derived subqueries are 1, 2, ...
OriginalQuery == 0

VARIABLES
    pc,                  \* position of the composite retriever's caller
    retrievers,          \* constructor argument `retrievers` (<<>> is None)
    args,                \* self.args
    weighted_retrievers, \* self.weighted_retrievers
    decompose_calls,     \* number of query_decomposition.decompose_query calls
    subqueries,          \* do_graph_search: subqueries
    stage,               \* per subquery: position of _get_search_results_for_query
    sub_retrievers,      \* per subquery: the list `retrievers` built for it
    scored_node_batches, \* per subquery, per sub-retriever: outcome of retrieve
    task_results,        \* do_graph_search: task_results
    search_results,      \* do_graph_search: the collection returned
    \* SemanticGuidedRetriever
    sgr_pc,              \* "new" before __init__, "ready" after
    embedding_cache,     \* per initial retriever: the cache object it holds
    cache_store,         \* per cache object: the ids in its _cache
    call,                \* per retrieve call: "idle", "running", "done"
    worker,              \* per call and initial retriever: its get_embeddings
    fetch_count,         \* per id: times the vector store was asked for it
    cached_in,           \* per id: the call that first cached it (0: none)
    reused,              \* ids served from the cache to another call
    refetched,           \* ids fetched although a fetch of them had been stored
    raced,               \* ids found missing while a fetch of them was in flight
    \* KeywordRankingSearch
    krs_pc,              \* position in _retrieve
    llm_responses,       \* what the LLM answers to the two prompts
    statement_entities,  \* graph: per statement, the values of its entities
    similarity,          \* per statement: cosine similarity to the query
    top_k,               \* self.top_k
    keywords,            \* _retrieve: keywords
    results,             \* _retrieve: results
    final_nodes,         \* _retrieve: final_nodes before the limit
    returned,            \* the list _retrieve returns
    execute_query_calls, \* number of graph_store.execute_query calls
    get_embeddings_calls, \* number of embedding_cache.get_embeddings calls
    \* EntityProvider and EntityVSSProvider
    ep_pc,               \* position in _get_entities
    provider,            \* the class of the provider
    entity_graph,        \* graph: per entity its value, class and relations
    ep_keywords,         \* _get_entities: keywords
    scored_entity_batches, \* per keyword: outcome of _get_entities_for_keyword
    scored_entities,     \* _get_entities: scored_entities still to be merged
    scored_entity_mappings, \* _get_entities: scored_entity_mappings
    ep_returned,         \* the list EntityProvider._get_entities returns
    all_entities_map,    \* EntityVSSProvider._get_entities: all_entities_map
    surfaced,            \* the lists handed to add_to_entities_map, in order
    vss_returned,        \* the list EntityVSSProvider._get_entities returns
    all_reranked_entity_names, \* _get_entities: all_reranked_entity_names
    \* SemanticGuidedRetriever._retrieve
    sg_pc,               \* position in _retrieve
    share_results,       \* self.share_results
    initial_outputs,     \* per initial retriever: what its retrieve gives
    graph_outputs,       \* per graph retriever: what its retrieve gives
    statements_found,    \* the statements get_statements_query returns
    retrieved,           \* the initial retrievers whose worker has finished
    initial_results,     \* _retrieve: initial_results
    seen_statement_ids,  \* _retrieve: seen_statement_ids
    initial_nodes,       \* _retrieve: initial_nodes
    all_nodes,           \* _retrieve: all_nodes
    collected,           \* lists of initial_results gone through
    expanded,            \* graph retrievers gone through
    ordered_nodes,       \* the list _retrieve returns
    \* post-processors
    proc_pc,             \* position of the caller of the processors
    pipeline,            \* the processors to apply, in order
    topic_heap,          \* the Topic objects, as they are now
    input_topics,        \* the Topic objects, as they were before the call
    input_collection,    \* the collection passed in: its Topic objects
    processed,           \* the collection returned by the last processor
    applied,             \* processors applied
    \* S3 vector indexes
    s3_pc,               \* "idle" before a call, "done" after it
    s3_request,          \* the call made and its arguments
    s3_calls,            \* the calls made on s3_vectors_client, in order
    s3_result,           \* what the call returned or raised
    \* GraphQueryRetriever
    gq_pc,               \* "ready" between calls of retrieve
    gq_retrieves,        \* number of retrieve calls made
    gq_query,            \* retrieve: query
    gq_executed,         \* what graph_store.execute_query did in the call
    gq_returned,         \* what retrieve returned or raised
    \* LLMCache
    lc_pc,               \* "ready" between calls of predict
    enable_cache,        \* self.enable_cache
    linesep,             \* os.linesep of the platform
    cache_dir,           \* cache/llm: per cache_file that exists, its content
    predicts,            \* number of predict calls made
    first_response,      \* per cache_key: the first response predict returned
    last_predict,        \* the last predict call: its key and its outcome
    \* EntityGraphBuilder
    egb_pc,              \* "ready" before build, "done" after it
    egb_fact,            \* the fact of the node, as validated
    egb_kwargs,          \* include_domain_labels and include_local_entities
    egb_queries,         \* the calls of execute_query_with_retry, in order
    \* concurrent calls of SemanticGuidedRetriever._retrieve, step 3
    sn_pc,               \* per call: position in the expansion loop
    sn_share_results,    \* self.share_results
    sn_graph_retrievers, \* self.graph_retrievers
    sn_retriever,        \* per call: index of `retriever` in the loop
    sn_initial_nodes,    \* per call: initial_nodes
    sn_all_nodes,        \* per call: all_nodes
    shared_nodes,        \* per graph retriever: its attribute shared_nodes
    sn_expanded_from,    \* per call: the shared_nodes its retrieves read
    \* StatementEnhancementPostProcessor
    enh_pc,              \* position in _postprocess_nodes
    enh_nodes,           \* _postprocess_nodes: nodes
    enh_responses,       \* per node: what self.llm.predict did for it
    enh_results,         \* per node: the result of its enhance_statement
    enh_order,           \* the nodes in the order their workers finished
    enh_returned         \* the list _postprocess_nodes returns

composite_vars ==
    << pc, retrievers, args, weighted_retrievers, decompose_calls, subqueries,
       stage, sub_retrievers, scored_node_batches, task_results, search_results >>

sgr_vars ==
    << sgr_pc, embedding_cache, cache_store, call, worker, fetch_count,
       cached_in, reused, refetched, raced >>

krs_vars ==
    << krs_pc, llm_responses, statement_entities, similarity, top_k, keywords,
       results, final_nodes, returned, execute_query_calls,
       get_embeddings_calls >>

entity_vars ==
    << ep_pc, provider, entity_graph, ep_keywords, scored_entity_batches,
       scored_entities, scored_entity_mappings, ep_returned,
       all_entities_map, surfaced, vss_returned,
       all_reranked_entity_names >>

guided_vars ==
    << sg_pc, share_results, initial_outputs, graph_outputs, statements_found,
       retrieved, initial_results, seen_statement_ids, initial_nodes,
       all_nodes, collected, expanded, ordered_nodes >>

processor_vars ==
    << proc_pc, pipeline, topic_heap, input_topics, input_collection,
       processed, applied >>

s3_vars == << s3_pc, s3_request, s3_calls, s3_result >>

gq_vars == << gq_pc, gq_retrieves, gq_query, gq_executed, gq_returned >>

lc_vars ==
    << lc_pc, enable_cache, linesep, cache_dir, predicts, first_response,
       last_predict >>

egb_vars == << egb_pc, egb_fact, egb_kwargs, egb_queries >>

sn_vars ==
    << sn_pc, sn_share_results, sn_graph_retrievers, sn_retriever,
       sn_initial_nodes, sn_all_nodes, shared_nodes, sn_expanded_from >>

enh_vars ==
    << enh_pc, enh_nodes, enh_responses, enh_results, enh_order,
       enh_returned >>

later_vars == << s3_vars, gq_vars, lc_vars, egb_vars, sn_vars, enh_vars >>

other_vars == << entity_vars, guided_vars, processor_vars, later_vars >>

vars == << composite_vars, sgr_vars, krs_vars, other_vars >>

\* no entity provider exists
NoEntityProvider ==
    /\ ep_pc = "none"
    /\ provider = "none"
    /\ entity_graph = <<>>
    /\ ep_keywords = <<>>
    /\ scored_entity_batches = <<>>
    /\ scored_entities = <<>>
    /\ scored_entity_mappings = <<>>
    /\ ep_returned = <<>>
    /\ all_entities_map = <<>>
    /\ surfaced = <<>>
    /\ vss_returned = <<>>
    /\ all_reranked_entity_names = <<>>

\* no SemanticGuidedRetriever is retrieving
NoGuidedRetrieve ==
    /\ sg_pc = "none"
    /\ share_results = FALSE
    /\ initial_outputs = <<>>
    /\ graph_outputs = <<>>
    /\ statements_found = {}
    /\ retrieved = {}
    /\ initial_results = <<>>
    /\ seen_statement_ids = {}
    /\ initial_nodes = <<>>
    /\ all_nodes = <<>>
    /\ collected = 0
    /\ expanded = 0
    /\ ordered_nodes = <<>>

\* no post-processor is applied
NoProcessor ==
    /\ proc_pc = "none"
    /\ pipeline = <<>>
    /\ topic_heap = <<>>
    /\ input_topics = <<>>
    /\ input_collection = <<>>
    /\ processed = <<>>
    /\ applied = 0

\* no vector index is called
NoS3Vectors ==
    /\ s3_pc = "none"
    /\ s3_request = <<>>
    /\ s3_calls = <<>>
    /\ s3_result = <<>>

\* no GraphQueryRetriever exists
NoGraphQuery ==
    /\ gq_pc = "none"
    /\ gq_retrieves = 0
    /\ gq_query = <<>>
    /\ gq_executed = <<>>
    /\ gq_returned = <<>>

\* no LLMCache exists
NoLLMCache ==
    /\ lc_pc = "none"
    /\ enable_cache = FALSE
    /\ linesep = <<>>
    /\ cache_dir = <<>>
    /\ predicts = 0
    /\ first_response = <<>>
    /\ last_predict = <<>>

\* no EntityGraphBuilder is building
NoEntityGraphBuilder ==
    /\ egb_pc = "none"
    /\ egb_fact = <<>>
    /\ egb_kwargs = <<>>
    /\ egb_queries = <<>>

\* no concurrent expansion
NoSharedNodes ==
    /\ sn_pc = <<>>
    /\ sn_share_results = FALSE
    /\ sn_graph_retrievers = <<>>
    /\ sn_retriever = <<>>
    /\ sn_initial_nodes = <<>>
    /\ sn_all_nodes = <<>>
    /\ shared_nodes = <<>>
    /\ sn_expanded_from = <<>>

\* no statement is enhanced
NoEnhancement ==
    /\ enh_pc = "none"
    /\ enh_nodes = <<>>
    /\ enh_responses = <<>>
    /\ enh_results = <<>>
    /\ enh_order = <<>>
    /\ enh_returned = <<>>

NoLaterComponent ==
    /\ NoS3Vectors
    /\ NoGraphQuery
    /\ NoLLMCache
    /\ NoEntityGraphBuilder
    /\ NoSharedNodes
    /\ NoEnhancement

NoOtherComponent ==
    NoEntityProvider /\ NoGuidedRetrieve /\ NoProcessor /\ NoLaterComponent

(***************************************************************************)
(* CompositeTraversalBasedRetriever.__init__                               *)
(***************************************************************************)
\* r if isinstance(r, WeightedTraversalBasedRetriever)
\*   else WeightedTraversalBasedRetriever(retriever=r, weight=1.0)
WrapOmitsWeight(r) ==
    IF r.isWeighted THEN r
    ELSE [ isWeighted |-> TRUE, retriever |-> r.retriever, weight |-> r.weight ]

Wrap(r) ==
    IF r.isWeighted THEN r
    ELSE WeightedTraversalBasedRetriever(r.retriever, DefaultWeight)

\* retrievers = retrievers or DEFAULT_TRAVERSAL_BASED_RETRIEVERS; wrap each
InitWeightedRetrievers(rs) ==
    LET given == IF rs = <<>> THEN DEFAULT_TRAVERSAL_BASED_RETRIEVERS ELSE rs
    IN  [ k \in DOMAIN given |-> Wrap(given[k]) ]

CompositeInit ==
    /\ pc = "new"
    /\ weighted_retrievers' = InitWeightedRetrievers(retrievers)
    /\ pc' = "ready"
    /\ UNCHANGED << retrievers, args, decompose_calls, subqueries, stage,
                    sub_retrievers, scored_node_batches, task_results,
                    search_results >>
    /\ UNCHANGED << sgr_vars, krs_vars, other_vars >>

(***************************************************************************)
(* QueryDecomposition.decompose_query: 1..max_subqueries subqueries, or    *)
(* the singleton of the original query when the decomposition degenerates. *)
(***************************************************************************)
DecomposeQuery(q, max_subqueries) ==
    { <<q>> } \cup { [ k \in 1..n |-> k ] : n \in 1..max_subqueries }

(***************************************************************************)
(* do_graph_search, up to the fan-out over the subqueries.                 *)
(***************************************************************************)
\* whether do_graph_search calls the decomposition
DerivesAlways(a) == TRUE

Derives(a) == a.derive_subqueries

NoTaskResult == [ status |-> "none", results |-> <<>> ]

DoGraphSearchStart ==
    /\ pc = "ready"
    /\ \E sq \in ( IF Derives(args)
                   THEN DecomposeQuery(OriginalQuery, args.max_subqueries)
                   ELSE { << OriginalQuery >> } ) :
          /\ subqueries' = sq
          /\ stage' = [ i \in DOMAIN sq |-> "queued" ]
          /\ sub_retrievers' = [ i \in DOMAIN sq |-> <<>> ]
          /\ scored_node_batches' = [ i \in DOMAIN sq |-> <<>> ]
          /\ task_results' = [ i \in DOMAIN sq |-> NoTaskResult ]
    /\ decompose_calls' = decompose_calls + ( IF Derives(args) THEN 1 ELSE 0 )
    /\ pc' = "running"
    /\ UNCHANGED << retrievers, args, weighted_retrievers, search_results >>
    /\ UNCHANGED << sgr_vars, krs_vars, other_vars >>

(***************************************************************************)
(* _get_search_results_for_query, first part: the sub-retrievers.          *)
(***************************************************************************)
\* math.ceil(a / b) for b > 0
CeilDivOffByOne(a, b) == (a \div b) + 1

CeilDiv(a, b) == (a + b - 1) \div b

\* math.ceil(self.args.max_search_results * wr.weight)
WeightedBudget(max_search_results, weight) ==
    CeilDiv(max_search_results * weight.num, weight.den)

\* sub_args: self.args.to_dict() with max_search_results and reranker replaced
SubArgs(a, wr) ==
    [ max_search_results |-> WeightedBudget(a.max_search_results, wr.weight),
      reranker           |-> "tfidf" ]

\* the retriever appended to `retrievers`: the instance itself, or the class
\* constructed with **sub_args
BuildRetriever(a, wr) ==
    [ cls        |-> wr.retriever.cls,
      isInstance |-> wr.retriever.isInstance,
      weight     |-> wr.weight,
      sub_args   |-> SubArgs(a, wr),
      args       |-> IF wr.retriever.isInstance
                     THEN wr.retriever.args
                     ELSE SubArgs(a, wr) ]

Pending == [ status |-> "pending", nodes |-> <<>> ]

BuildRetrievers(i) ==
    /\ pc = "running"
    /\ i \in DOMAIN subqueries
    /\ stage[i] = "queued"
    /\ sub_retrievers' =
          [ sub_retrievers EXCEPT
              ![i] = [ j \in DOMAIN weighted_retrievers |->
                          BuildRetriever(args, Wrap(weighted_retrievers[j])) ] ]
    /\ scored_node_batches' =
          [ scored_node_batches EXCEPT
              ![i] = [ j \in DOMAIN weighted_retrievers |-> Pending ] ]
    /\ stage' = [ stage EXCEPT ![i] = "built" ]
    /\ UNCHANGED << pc, retrievers, args, weighted_retrievers, decompose_calls,
                    subqueries, task_results, search_results >>
    /\ UNCHANGED << sgr_vars, krs_vars, other_vars >>

(***************************************************************************)
(* _get_search_results_for_query, second part: executor.map over the       *)
(* sub-retrievers.  Each r.retrieve(query) runs on a pool worker, in any   *)
(* order; it returns a list of scored nodes or raises.                     *)
(***************************************************************************)
Retrieve(i, j) ==
    /\ pc = "running"
    /\ i \in DOMAIN subqueries
    /\ stage[i] = "built"
    /\ j \in DOMAIN scored_node_batches[i]
    /\ scored_node_batches[i][j].status = "pending"
    /\ \E outcome \in { [ status |-> "raised", nodes |-> <<>> ] }
                        \cup { [ status |-> "done", nodes |-> b ] : b \in Batches } :
          scored_node_batches' = [ scored_node_batches EXCEPT ![i][j] = outcome ]
    /\ UNCHANGED << pc, retrievers, args, weighted_retrievers, decompose_calls,
                    subqueries, stage, sub_retrievers, task_results,
                    search_results >>
    /\ UNCHANGED << sgr_vars, krs_vars, other_vars >>

RECURSIVE Flatten(_)
\* sum(scored_node_batches, start=[])
Flatten(batches) ==
    IF batches = <<>> THEN <<>>
    ELSE Head(batches).nodes \o Flatten(Tail(batches))

\* the value of _get_search_results_for_query once every worker has returned:
\* iterating the map re-raises a worker's exception; otherwise the batches
\* are concatenated in the order of `retrievers` and wrapped, as they are,
\* in SearchResultCollection(results=search_results)
GatherResult(batches) ==
    IF \E j \in DOMAIN batches : batches[j].status = "raised"
    THEN [ status |-> "raised", results |-> <<>> ]
    ELSE [ status |-> "ok", results |-> Flatten(batches) ]

Gather(i) ==
    /\ pc = "running"
    /\ i \in DOMAIN subqueries
    /\ stage[i] = "built"
    /\ \A j \in DOMAIN scored_node_batches[i] :
          scored_node_batches[i][j].status # "pending"
    /\ task_results' =
          [ task_results EXCEPT ![i] = GatherResult(scored_node_batches[i]) ]
    /\ stage' = [ stage EXCEPT ![i] = "gathered" ]
    /\ UNCHANGED << pc, retrievers, args, weighted_retrievers, decompose_calls,
                    subqueries, sub_retrievers, scored_node_batches,
                    search_results >>
    /\ UNCHANGED << sgr_vars, krs_vars, other_vars >>

(***************************************************************************)
(* SearchResultCollection.add_search_result: idempotent by identity.  A    *)
(* result whose statement is already in the collection is merged into the  *)
(* entry that is there; the entries already accepted keep their places.    *)
(***************************************************************************)
AddSearchResult(collection, result) ==
    IF \E k \in DOMAIN collection : collection[k] = result
    THEN collection
    ELSE Append(collection, result)

RECURSIVE AddAll(_, _)
\* for search_result in task_result.results: add_search_result(search_result)
AddAll(collection, rs) ==
    IF rs = <<>> THEN collection
    ELSE AddAll(AddSearchResult(collection, Head(rs)), Tail(rs))

RECURSIVE ExtendAll(_, _)
\* the merge loop of do_graph_search with the results appended as they come
ExtendAll(collection, trs) ==
    IF trs = <<>> THEN collection
    ELSE ExtendAll(collection \o Head(trs).results, Tail(trs))

RECURSIVE MergeTaskResults(_, _)
\* do_graph_search: the loop over task_results, in the order of subqueries
MergeTaskResults(collection, trs) ==
    IF trs = <<>> THEN collection
    ELSE MergeTaskResults(AddAll(collection, Head(trs).results), Tail(trs))

(***************************************************************************)
(* do_graph_search, after the pool has joined: list(p.map(...)) re-raises  *)
(* the exception of a subquery's task; otherwise the results are merged.   *)
(***************************************************************************)
Merge ==
    /\ pc = "running"
    /\ \A i \in DOMAIN subqueries : stage[i] = "gathered"
    /\ IF \E i \in DOMAIN task_results : task_results[i].status = "raised"
       THEN /\ pc' = "raised"
            /\ search_results' = <<>>
       ELSE /\ pc' = "done"
            /\ search_results' = MergeTaskResults(<<>>, task_results)
    /\ UNCHANGED << retrievers, args, weighted_retrievers, decompose_calls,
                    subqueries, stage, sub_retrievers, scored_node_batches,
                    task_results >>
    /\ UNCHANGED << sgr_vars, krs_vars, other_vars >>

(***************************************************************************)
(* Initial states.                                                         *)
(***************************************************************************)
\* no SemanticGuidedRetriever has been constructed
NoSemanticGuidedRetriever ==
    /\ sgr_pc = "none"
    /\ embedding_cache = <<>>
    /\ cache_store = <<>>
    /\ call = <<>>
    /\ worker = <<>>
    /\ fetch_count = <<>>
    /\ cached_in = <<>>
    /\ reused = {}
    /\ refetched = {}
    /\ raced = {}

\* no KeywordRankingSearch is retrieving
NoKeywordRankingSearch ==
    /\ krs_pc = "none"
    /\ llm_responses = <<>>
    /\ statement_entities = <<>>
    /\ similarity = <<>>
    /\ top_k = <<>>
    /\ keywords = {}
    /\ results = <<>>
    /\ final_nodes = <<>>
    /\ returned = <<>>
    /\ execute_query_calls = 0
    /\ get_embeddings_calls = 0

InitComposite(retrieverLists, argsChoices) ==
    /\ NoSemanticGuidedRetriever
    /\ NoKeywordRankingSearch
    /\ NoOtherComponent
    /\ pc = "new"
    /\ retrievers \in retrieverLists
    /\ args \in argsChoices
    /\ weighted_retrievers = <<>>
    /\ decompose_calls = 0
    /\ subqueries = <<>>
    /\ stage = <<>>
    /\ sub_retrievers = <<>>
    /\ scored_node_batches = <<>>
    /\ task_results = <<>>
    /\ search_results = <<>>

\* every list of retrievers, every budget and reranker; one subquery
ConfigArgs ==
    { [ ProcessorArgs EXCEPT !.max_search_results = m, !.reranker = r,
                             !.derive_subqueries = d, !.max_subqueries = 1 ] :
        m \in MaxSearchResultsChoices, r \in Rerankers, d \in BOOLEAN }

InitConfig ==
    InitComposite(SeqsUpTo(WeightedRetrieverTypes, MaxRetrievers), ConfigArgs)

NextConfig ==
    \/ CompositeInit
    \/ DoGraphSearchStart
    \/ \E i \in DOMAIN subqueries : BuildRetrievers(i)

\* construction and derivation of the sub-retrievers' configuration
SpecConfig == InitConfig /\ [][NextConfig]_vars

\* the default sub-retrievers or a single one; every decomposition setting
SearchRetrieverLists ==
    { <<>>, << BareRetriever(RetrieverClass("ChunkBasedSearch")) >> }

SearchArgs ==
    { [ ProcessorArgs EXCEPT !.derive_subqueries = d, !.max_subqueries = n ] :
        d \in BOOLEAN, n \in 1..MaxSubqueriesBound }

Init == InitComposite(SearchRetrieverLists, SearchArgs)

Next ==
    \/ CompositeInit
    \/ DoGraphSearchStart
    \/ \E i \in DOMAIN subqueries : BuildRetrievers(i)
    \/ \E i \in DOMAIN subqueries :
          \E j \in DOMAIN scored_node_batches[i] : Retrieve(i, j)
    \/ \E i \in DOMAIN subqueries : Gather(i)
    \/ Merge

\* one do_graph_search call of a composite retriever
Spec == Init /\ [][Next]_vars

(***************************************************************************)
(* Part 2.  SemanticGuidedRetriever and SharedEmbeddingCache.              *)
(***************************************************************************)
\* number of retrieve calls served by one SemanticGuidedRetriever
MaxCalls == 2

\* the retrieve calls, in the order in which they begin
Calls == 1..MaxCalls

\* the default initial retrievers
InitialRetrievers == {"StatementCosineSimilaritySearch", "KeywordRankingSearch"}

\* the cache objects: the retriever's shared one, and one per sub-retriever
SharedCache == "shared_embedding_cache"

CacheObjects == {SharedCache} \cup InitialRetrievers

\* the lists of ids a sub-retriever may ask the cache for
Lookups == { {"S1", "S2"}, {"S2", "S3"} }

\* no composite retriever has been constructed
NoCompositeRetriever ==
    /\ pc = "none"
    /\ retrievers = <<>>
    /\ args = ProcessorArgs
    /\ weighted_retrievers = <<>>
    /\ decompose_calls = 0
    /\ subqueries = <<>>
    /\ stage = <<>>
    /\ sub_retrievers = <<>>
    /\ scored_node_batches = <<>>
    /\ task_results = <<>>
    /\ search_results = <<>>

\* the cache object an initial retriever is constructed with
OwnCache(r) == r

InjectedCache(r) == SharedCache

\* SemanticGuidedRetriever.__init__, default configuration: one
\* SharedEmbeddingCache is created and handed to both initial retrievers
SemanticGuidedInit ==
    /\ sgr_pc = "new"
    /\ sgr_pc' = "ready"
    /\ embedding_cache' = [ r \in InitialRetrievers |-> InjectedCache(r) ]
    /\ cache_store' = [ c \in CacheObjects |-> {} ]
    /\ UNCHANGED << call, worker, fetch_count, cached_in, reused, refetched,
                    raced >>
    /\ UNCHANGED << composite_vars, krs_vars, other_vars >>

\* what _retrieve does to a cache when a call begins: nothing
DiscardedCache(ids) == {}

CacheAtRetrieveStart(ids) == ids

Queued == [ pc |-> "queued", missing |-> {} ]

Returned == [ pc |-> "done", missing |-> {} ]

\* _retrieve, the fan-out: each initial retriever's retrieve is submitted to
\* the pool.  Calls on one retriever object may overlap.
SemanticGuidedRetrieveStart(c) ==
    /\ sgr_pc = "ready"
    /\ call[c] = "idle"
    /\ \A d \in Calls : d < c => call[d] # "idle"
    /\ call' = [ call EXCEPT ![c] = "running" ]
    /\ cache_store' =
          [ k \in CacheObjects |-> CacheAtRetrieveStart(cache_store[k]) ]
    /\ worker' = [ worker EXCEPT ![c] = [ r \in InitialRetrievers |-> Queued ] ]
    /\ UNCHANGED << sgr_pc, embedding_cache, fetch_count, cached_in, reused,
                    refetched, raced >>
    /\ UNCHANGED << composite_vars, krs_vars, other_vars >>

\* the ids whose fetch is in flight in some other get_embeddings call
InFlight(c, r) ==
    UNION { worker[t[1]][t[2]].missing :
              t \in { u \in Calls \X InitialRetrievers :
                        call[u[1]] = "running" /\ u # <<c, r>> } }

\* SharedEmbeddingCache.get_embeddings, first half: the cached ids are taken
\* from _cache, the others are the missing ids
GetEmbeddingsLookup(c, r) ==
    /\ call[c] = "running"
    /\ worker[c][r].pc = "queued"
    /\ \E statement_ids \in Lookups :
          LET cached  == cache_store[embedding_cache[r]]
              missing == statement_ids \ cached
              hits    == statement_ids \cap cached
          IN  /\ worker' =
                    [ worker EXCEPT ![c][r] =
                        IF missing = {} THEN Returned
                        ELSE [ pc |-> "fetching", missing |-> missing ] ]
              /\ reused' = reused \cup { s \in hits : cached_in[s] # c }
              /\ refetched' =
                    refetched \cup { s \in missing : cached_in[s] # 0 }
              /\ raced' = raced \cup ( missing \cap InFlight(c, r) )
    /\ UNCHANGED << sgr_pc, embedding_cache, cache_store, call, fetch_count,
                    cached_in >>
    /\ UNCHANGED << composite_vars, krs_vars, other_vars >>

\* SharedEmbeddingCache.get_embeddings, second half: the missing ids are
\* fetched from the vector store and stored in _cache
GetEmbeddingsFetch(c, r) ==
    /\ call[c] = "running"
    /\ worker[c][r].pc = "fetching"
    /\ LET missing == worker[c][r].missing
       IN  /\ fetch_count' =
                 [ s \in Statements |->
                     IF s \in missing THEN fetch_count[s] + 1 ELSE fetch_count[s] ]
           /\ cache_store' =
                 [ cache_store EXCEPT ![embedding_cache[r]] = @ \cup missing ]
           /\ cached_in' =
                 [ s \in Statements |->
                     IF s \in missing /\ cached_in[s] = 0 THEN c ELSE cached_in[s] ]
    /\ worker' = [ worker EXCEPT ![c][r] = Returned ]
    /\ UNCHANGED << sgr_pc, embedding_cache, call, reused, refetched, raced >>
    /\ UNCHANGED << composite_vars, krs_vars, other_vars >>

\* KeywordRankingSearch._retrieve returns without get_embeddings when it has
\* no keywords, no rows, or no group of more than one statement
RetrieveWithoutEmbeddings(c, r) ==
    /\ call[c] = "running"
    /\ r = "KeywordRankingSearch"
    /\ worker[c][r].pc = "queued"
    /\ worker' = [ worker EXCEPT ![c][r] = Returned ]
    /\ UNCHANGED << sgr_pc, embedding_cache, cache_store, call, fetch_count,
                    cached_in, reused, refetched, raced >>
    /\ UNCHANGED << composite_vars, krs_vars, other_vars >>

\* _retrieve, the join: list(p.map(...)) has every initial retriever's result
SemanticGuidedRetrieveEnd(c) ==
    /\ call[c] = "running"
    /\ \A r \in InitialRetrievers : worker[c][r].pc = "done"
    /\ call' = [ call EXCEPT ![c] = "done" ]
    /\ UNCHANGED << sgr_pc, embedding_cache, cache_store, worker, fetch_count,
                    cached_in, reused, refetched, raced >>
    /\ UNCHANGED << composite_vars, krs_vars, other_vars >>

InitCache ==
    /\ NoCompositeRetriever
    /\ NoKeywordRankingSearch
    /\ NoOtherComponent
    /\ sgr_pc = "new"
    /\ embedding_cache = <<>>
    /\ cache_store = <<>>
    /\ call = [ c \in Calls |-> "idle" ]
    /\ worker = [ c \in Calls |-> [ r \in InitialRetrievers |-> Queued ] ]
    /\ fetch_count = [ s \in Statements |-> 0 ]
    /\ cached_in = [ s \in Statements |-> 0 ]
    /\ reused = {}
    /\ refetched = {}
    /\ raced = {}

NextCache ==
    \/ SemanticGuidedInit
    \/ \E c \in Calls : SemanticGuidedRetrieveStart(c)
    \/ \E c \in Calls, r \in InitialRetrievers : GetEmbeddingsLookup(c, r)
    \/ \E c \in Calls, r \in InitialRetrievers : GetEmbeddingsFetch(c, r)
    \/ \E c \in Calls, r \in InitialRetrievers : RetrieveWithoutEmbeddings(c, r)
    \/ \E c \in Calls : SemanticGuidedRetrieveEnd(c)

\* retrieve calls on one SemanticGuidedRetriever and its embedding cache
SpecCache == InitCache /\ [][NextCache]_vars

(***************************************************************************)
(* Part 3.  KeywordRankingSearch.                                          *)
(***************************************************************************)
\* longest LLM response that is explored, in characters
MaxResponseLen == 3
\* largest small value of top_k that is explored
MaxTopK == 2

\* KeywordRankingSearch.__init__: top_k: int = 100
DefaultTopK == 100

\* strings are sequences of characters
Chars == {"a", "B", " ", "^"}

Str(c) == << c >>

\* str.lower, per character
LowerChar(c) == IF c = "B" THEN "b" ELSE IF c = "A" THEN "a" ELSE c

\* str.lower
Lower(str) == [ k \in DOMAIN str |-> LowerChar(str[k]) ]

RECURSIVE StripLeft(_)
StripLeft(str) ==
    IF str # <<>> /\ Head(str) = " " THEN StripLeft(Tail(str)) ELSE str

RECURSIVE StripRight(_)
StripRight(str) ==
    IF str # <<>> /\ str[Len(str)] = " "
    THEN StripRight(SubSeq(str, 1, Len(str) - 1))
    ELSE str

\* str.strip
Strip(str) == StripRight(StripLeft(str))

RECURSIVE Split(_, _)
\* str.split(sep): the pieces between the separators; one piece, the string
\* itself, when there is no separator (also for the empty string)
Split(str, sep) ==
    IF \E k \in DOMAIN str : str[k] = sep
    THEN LET k == CHOOSE i \in DOMAIN str :
                     /\ str[i] = sep
                     /\ \A h \in 1..(i - 1) : str[h] # sep
         IN  << SubSeq(str, 1, k - 1) >> \o Split(SubSeq(str, k + 1, Len(str)), sep)
    ELSE << str >>

\* get_keywords.extract: {kw.strip().lower() for kw in response.strip().split('^')}
Extract(response) ==
    { Lower(Strip(kw)) : kw \in Range(Split(Strip(response), "^")) }

\* an LLM call returns a text or raises
LlmReturns(text) == [ raises |-> FALSE, text |-> text ]

LlmRaises == [ raises |-> TRUE, text |-> <<>> ]

\* get_keywords: both prompts are extracted on a pool and the sets united;
\* any exception gives the empty set
GetKeywords(responses) ==
    IF responses.keywords.raises \/ responses.synonyms.raises
    THEN {}
    ELSE Extract(responses.keywords.text) \cup Extract(responses.synonyms.text)

\* the order in which the graph returns the statements
StatementOrder == << "S1", "S2", "S3" >>

\* the values of the entities of the graph
EntityValues == { Str("a"), Str("B") }

\* the keywords of `kws` that match an entity of statement s:
\* toLower(e.value) = toLower(keyword)
MatchedKeywords(kws, s) ==
    { kw \in kws : \E e \in statement_entities[s] : Lower(e) = Lower(kw) }

RECURSIVE QueryRows(_, _)
\* the rows of the Cypher query: one per statement that matches a keyword,
\* with the distinct keywords matched
QueryRows(kws, order) ==
    IF order = <<>> THEN <<>>
    ELSE ( IF MatchedKeywords(kws, Head(order)) = {} THEN <<>>
           ELSE << [ statementId      |-> Head(order),
                     matched_keywords |-> MatchedKeywords(kws, Head(order)) ] >> )
         \o QueryRows(kws, Tail(order))

\* scores are exact fractions num/den with den > 0
ScoreGe(a, b) == a.num * b.den >= b.num * a.den

\* score = num_matches / len(keywords)
SingleScore(num_matches, num_keywords) ==
    [ num |-> num_matches, den |-> num_keywords ]

\* combined_score = (num_matches / len(keywords)) * (score + 1) / 2
CombinedScore(num_matches, num_keywords, sim) ==
    [ num |-> num_matches * (sim.num + sim.den),
      den |-> num_keywords * 2 * sim.den ]

\* the statements of the rows that matched n keywords, in row order
RECURSIVE Group(_, _)
Group(rows, n) ==
    IF rows = <<>> THEN <<>>
    ELSE ( IF Cardinality(Head(rows).matched_keywords) = n
           THEN << Head(rows) >> ELSE <<>> )
         \o Group(Tail(rows), n)

RECURSIVE InsertBySimilarity(_, _)
InsertBySimilarity(row, sorted) ==
    IF sorted = <<>> THEN << row >>
    ELSE IF ScoreGe(similarity[Head(sorted).statementId],
                    similarity[row.statementId])
         THEN << Head(sorted) >> \o InsertBySimilarity(row, Tail(sorted))
         ELSE << row >> \o sorted

RECURSIVE TopKBySimilarity(_, _)
\* get_top_k(query embedding, embeddings, len(statement_ids)): the statements
\* by cosine similarity to the query, highest first
TopKBySimilarity(sorted, rows) ==
    IF rows = <<>> THEN sorted
    ELSE TopKBySimilarity(InsertBySimilarity(Head(rows), sorted), Tail(rows))

\* the node made for a statement
Node(row, score) ==
    [ statementId         |-> row.statementId,
      num_keyword_matches |-> Cardinality(row.matched_keywords),
      score               |-> score ]

\* the nodes of the group with n matches: ranked by similarity when the
\* group has more than one member
GroupNodes(rows, n, num_keywords) ==
    LET group == Group(rows, n)
    IN  IF Len(group) > 1
        THEN LET scored == TopKBySimilarity(<<>>, group)
             IN  [ k \in DOMAIN scored |->
                     Node(scored[k],
                          CombinedScore(n, num_keywords,
                                        similarity[scored[k].statementId])) ]
        ELSE IF Len(group) = 1
        THEN << Node(group[1], SingleScore(n, num_keywords)) >>
        ELSE <<>>

RECURSIVE RankGroups(_, _, _)
\* for num_matches in sorted(statements_by_matches.keys(), reverse=True)
RankGroups(rows, n, num_keywords) ==
    IF n = 0 THEN <<>>
    ELSE GroupNodes(rows, n, num_keywords) \o RankGroups(rows, n - 1, num_keywords)

\* the number of groups with more than one member: one get_embeddings each
TieGroups(rows, num_keywords) ==
    Cardinality({ n \in 1..num_keywords : Len(Group(rows, n)) > 1 })

RECURSIVE InsertByScore(_, _)
InsertByScore(node, sorted) ==
    IF sorted = <<>> THEN << node >>
    ELSE IF ScoreGe(Head(sorted).score, node.score)
         THEN << Head(sorted) >> \o InsertByScore(node, Tail(sorted))
         ELSE << node >> \o sorted

RECURSIVE SortByScore(_, _)
\* final_nodes.sort(key=lambda x: x.score or 0.0, reverse=True): stable
SortByScore(sorted, nodes) ==
    IF nodes = <<>> THEN sorted
    ELSE SortByScore(InsertByScore(Head(nodes), sorted), Tail(nodes))

\* self.top_k is None or an int
TopKNone == [ isNone |-> TRUE, value |-> 0 ]

TopKInt(v) == [ isNone |-> FALSE, value |-> v ]

\* `if self.top_k:`
Truthy(k) == ~ k.isNone /\ k.value # 0

Min(a, b) == IF a <= b THEN a ELSE b

\* the limit without the sort
TruncateUnsorted(nodes, k) ==
    IF Truthy(k) THEN SubSeq(nodes, 1, Min(k.value, Len(nodes))) ELSE nodes

\* step 5: sort and cut when top_k is truthy, else the list as it is
LimitToTopK(nodes, k) ==
    IF Truthy(k)
    THEN SubSeq(SortByScore(<<>>, nodes), 1, Min(k.value, Len(nodes)))
    ELSE nodes

\* an early return that is never taken
NeverEmpty(kws) == FALSE

\* `if not keywords:`
NoKeywords(kws) == kws = {}

\* _retrieve, step 1: get_keywords and the early return
KeywordRankingGetKeywords ==
    /\ krs_pc = "start"
    /\ keywords' = GetKeywords(llm_responses)
    /\ IF NoKeywords(keywords')
       THEN krs_pc' = "done"
       ELSE krs_pc' = "query"
    /\ UNCHANGED << llm_responses, statement_entities, similarity, top_k,
                    results, final_nodes, returned, execute_query_calls,
                    get_embeddings_calls >>
    /\ UNCHANGED << composite_vars, sgr_vars, other_vars >>

\* _retrieve, step 2: the graph query; no rows, or an exception of the graph
\* store (caught at the end of _retrieve), return []
KeywordRankingExecuteQuery ==
    /\ krs_pc = "query"
    /\ execute_query_calls' = execute_query_calls + 1
    /\ \E raises \in BOOLEAN :
          LET rows == IF raises THEN <<>>
                      ELSE QueryRows(keywords, StatementOrder)
          IN  /\ results' = rows
              /\ krs_pc' = IF rows = <<>> THEN "done" ELSE "rank"
    /\ UNCHANGED << llm_responses, statement_entities, similarity, top_k,
                    keywords, final_nodes, returned, get_embeddings_calls >>
    /\ UNCHANGED << composite_vars, sgr_vars, other_vars >>

\* _retrieve, steps 3 and 4: group by number of matches, rank the groups
KeywordRankingRank ==
    /\ krs_pc = "rank"
    /\ final_nodes' = RankGroups(results, Cardinality(keywords), Cardinality(keywords))
    /\ get_embeddings_calls' =
          get_embeddings_calls + TieGroups(results, Cardinality(keywords))
    /\ krs_pc' = "limit"
    /\ UNCHANGED << llm_responses, statement_entities, similarity, top_k,
                    keywords, results, returned, execute_query_calls >>
    /\ UNCHANGED << composite_vars, sgr_vars, other_vars >>

\* _retrieve, step 5 and the return
KeywordRankingLimit ==
    /\ krs_pc = "limit"
    /\ returned' = LimitToTopK(final_nodes, top_k)
    /\ krs_pc' = "done"
    /\ UNCHANGED << llm_responses, statement_entities, similarity, top_k,
                    keywords, results, final_nodes, execute_query_calls,
                    get_embeddings_calls >>
    /\ UNCHANGED << composite_vars, sgr_vars, other_vars >>

\* LLM answers: every text of up to MaxResponseLen characters, or an exception
LlmAnswers ==
    { LlmRaises } \cup { LlmReturns(t) : t \in SeqsUpTo(Chars, MaxResponseLen) }

\* cosine similarities in [-1, 1], as exact fractions
Similarities ==
    { [num |-> -1, den |-> 1], [num |-> 0, den |-> 1], [num |-> 1, den |-> 1] }

TopKChoices ==
    { TopKNone, TopKInt(DefaultTopK) } \cup { TopKInt(v) : v \in 0..MaxTopK }

InitKeywordRanking(answers, graphs, sims, topks) ==
    /\ NoCompositeRetriever
    /\ NoSemanticGuidedRetriever
    /\ NoOtherComponent
    /\ krs_pc = "start"
    /\ llm_responses \in answers
    /\ statement_entities \in graphs
    /\ similarity \in sims
    /\ top_k \in topks
    /\ keywords = {}
    /\ results = <<>>
    /\ final_nodes = <<>>
    /\ returned = <<>>
    /\ execute_query_calls = 0
    /\ get_embeddings_calls = 0

\* every pair of LLM answers over one graph
InitExtraction ==
    InitKeywordRanking(
        [ keywords : LlmAnswers, synonyms : LlmAnswers ],
        { [ s \in Statements |->
              IF s = "S1" THEN { Str("a") }
              ELSE IF s = "S2" THEN { Str("a"), Str("B") }
              ELSE { Str("B") } ] },
        { [ s \in Statements |-> [num |-> 0, den |-> 1] ] },
        { TopKInt(DefaultTopK) } )

\* two or three keywords over every graph, similarity and top_k
InitRanking ==
    InitKeywordRanking(
        [ keywords : { LlmReturns(<<"a", "^", "B">>) },
          synonyms : { LlmReturns(<<"a">>), LlmReturns(<<"a", "a">>) } ],
        [ Statements -> SUBSET EntityValues ],
        [ Statements -> Similarities ],
        TopKChoices )

InitKRS == InitExtraction \/ InitRanking

NextKRS ==
    \/ KeywordRankingGetKeywords
    \/ KeywordRankingExecuteQuery
    \/ KeywordRankingRank
    \/ KeywordRankingLimit

\* one _retrieve call of a KeywordRankingSearch
SpecKRS == InitKRS /\ [][NextKRS]_vars

(***************************************************************************)
(* EntityProvider: the exact-match entity lookup.  _get_entities looks     *)
(* every keyword up on a pool, merges the sightings of an entity by        *)
(* entityId and sorts by score.  Strings are sequences of characters; an   *)
(* entity's search_str is search_string_from(value), as the graph builder  *)
(* sets it.                                                                *)
(***************************************************************************)
\* number of keywords handed to _get_entities
MaxKeywords == 2

EntityIds == {"e1", "e2", "e3", "e4"}

\* the order in which the graph store yields rows of equal score
EntityOrder == << "e1", "e2", "e3", "e4" >>

\* Alice with 3 relations, Bob with 1, a second entity named alice of another
\* class with `n` relations, and one more entity
GraphWith(n) ==
    [ e \in EntityIds |->
        IF e = "e1" THEN [ value |-> <<"A">>, class |-> <<"P">>, relations |-> 3 ]
        ELSE IF e = "e2" THEN [ value |-> <<"b">>, class |-> <<"P">>, relations |-> 1 ]
        ELSE IF e = "e3" THEN [ value |-> <<"a">>, class |-> <<"O">>, relations |-> n ]
        ELSE [ value |-> <<"c">>, class |-> <<"O">>, relations |-> 1 ] ]

EntityGraphs == { GraphWith(0), GraphWith(2) }

\* the keywords a caller may pass
KeywordChoices ==
    { <<"a">>, <<"A", " ">>, <<"b">>, <<"z">>, <<"a", "|", "P">> }

RECURSIVE JoinWords(_)
\* ' '.join(words) over the non-empty words
JoinWords(words) ==
    IF words = <<>> THEN <<>>
    ELSE IF Head(words) = <<>> THEN JoinWords(Tail(words))
    ELSE IF JoinWords(Tail(words)) = <<>> THEN Head(words)
    ELSE Head(words) \o <<" ">> \o JoinWords(Tail(words))

\* the normalised search string: lower-cased, whitespace collapsed
search_string_from(value) == JoinWords(Split(Lower(value), " "))

\* entity.class STARTS WITH $classification
StartsWith(str, prefix) ==
    /\ Len(prefix) <= Len(str)
    /\ SubSeq(str, 1, Len(prefix)) = prefix

\* the WHERE clause of the two Cypher queries
MatchesKeyword(graph, e, keyword) ==
    LET parts == Split(keyword, "|")
    IN  /\ search_string_from(graph[e].value) = search_string_from(parts[1])
        /\ Len(parts) > 1 => StartsWith(graph[e].class, parts[2])

\* ScoredEntity.model_validate(result['result']); the reranking score is 0
\* until a reranker sets it
ScoredEntity(e, score) ==
    [ entityId |-> e, score |-> score,
      reranking_score |-> [num |-> 0, den |-> 1] ]

RECURSIVE InsertRow(_, _)
InsertRow(row, sorted) ==
    IF sorted = <<>> THEN << row >>
    ELSE IF Head(sorted).score >= row.score
         THEN << Head(sorted) >> \o InsertRow(row, Tail(sorted))
         ELSE << row >> \o sorted

RECURSIVE OrderByScoreDesc(_, _)
\* WITH entity, count(r) AS score ORDER BY score DESC
OrderByScoreDesc(sorted, rows) ==
    IF rows = <<>> THEN sorted
    ELSE OrderByScoreDesc(InsertRow(Head(rows), sorted), Tail(rows))

RECURSIVE MatchRows(_, _, _)
\* MATCH (entity)-[r]->() WHERE ...: one row per entity that matches and has
\* a relation, with count(r) as its score
MatchRows(graph, keyword, order) ==
    IF order = <<>> THEN <<>>
    ELSE ( IF /\ MatchesKeyword(graph, Head(order), keyword)
              /\ graph[Head(order)].relations > 0
           THEN << ScoredEntity(Head(order), graph[Head(order)].relations) >>
           ELSE <<>> )
         \o MatchRows(graph, keyword, Tail(order))

\* _get_entities_for_keyword: the rows of the query whose score is not 0
GetEntitiesForKeywordResult(graph, keyword) ==
    SelectSeq(OrderByScoreDesc(<<>>, MatchRows(graph, keyword, EntityOrder)),
              LAMBDA row : row.score # 0)

\* a keyword whose lookup has not returned
NotReturned == [ status |-> "pending", entities |-> <<>> ]

\* _get_entities: the pool is created and the lookups are submitted
GetEntitiesStart ==
    /\ ep_pc = "start"
    /\ scored_entity_batches' = [ i \in DOMAIN ep_keywords |-> NotReturned ]
    /\ ep_pc' = "lookup"
    /\ UNCHANGED << provider, entity_graph, ep_keywords, scored_entities,
                    scored_entity_mappings, ep_returned, all_entities_map,
                    surfaced, vss_returned,
                    all_reranked_entity_names >>
    /\ UNCHANGED << composite_vars, sgr_vars, krs_vars, guided_vars,
                    processor_vars, later_vars >>

\* a pool worker: _get_entities_for_keyword(keywords[i])
GetEntitiesForKeyword(i) ==
    /\ ep_pc = "lookup"
    /\ i \in DOMAIN scored_entity_batches
    /\ scored_entity_batches[i].status = "pending"
    /\ scored_entity_batches' =
          [ scored_entity_batches EXCEPT ![i] =
              [ status   |-> "done",
                entities |-> GetEntitiesForKeywordResult(entity_graph,
                                                         ep_keywords[i]) ] ]
    /\ UNCHANGED << ep_pc, provider, entity_graph, ep_keywords,
                    scored_entities, scored_entity_mappings, ep_returned,
                    all_entities_map, surfaced, vss_returned,
                    all_reranked_entity_names >>
    /\ UNCHANGED << composite_vars, sgr_vars, krs_vars, guided_vars,
                    processor_vars, later_vars >>

RECURSIVE FlattenEntities(_)
\* sum(scored_entity_batches, start=[])
FlattenEntities(batches) ==
    IF batches = <<>> THEN <<>>
    ELSE Head(batches).entities \o FlattenEntities(Tail(batches))

\* _get_entities: the map is consumed in the order of the keywords
SumEntityBatches ==
    /\ ep_pc = "lookup"
    /\ \A i \in DOMAIN scored_entity_batches :
          scored_entity_batches[i].status = "done"
    /\ scored_entities' = FlattenEntities(scored_entity_batches)
    /\ scored_entity_mappings' = <<>>
    /\ ep_pc' = "merge"
    /\ UNCHANGED << provider, entity_graph, ep_keywords,
                    scored_entity_batches, ep_returned, all_entities_map,
                    surfaced, vss_returned,
                    all_reranked_entity_names >>
    /\ UNCHANGED << composite_vars, sgr_vars, krs_vars, guided_vars,
                    processor_vars, later_vars >>

\* the place of an entityId in the mappings, 0 when it is not a key
KeyIndex(mappings, entity_id) ==
    IF \E k \in DOMAIN mappings : mappings[k].entityId = entity_id
    THEN CHOOSE k \in DOMAIN mappings : mappings[k].entityId = entity_id
    ELSE 0

\* a merge in which the later sighting replaces the earlier one
ReplaceScoredEntity(mappings, scored_entity) ==
    LET k == KeyIndex(mappings, scored_entity.entityId)
    IN  IF k = 0 THEN Append(mappings, scored_entity)
        ELSE [ mappings EXCEPT ![k] = scored_entity ]

\* the body of the merge loop: the first sighting is stored, a later one adds
\* its score
AddScoredEntity(mappings, scored_entity) ==
    LET k == KeyIndex(mappings, scored_entity.entityId)
    IN  IF k = 0 THEN Append(mappings, scored_entity)
        ELSE [ mappings EXCEPT ![k].score = @ + scored_entity.score ]

\* _get_entities: one turn of `for scored_entity in scored_entities`
MergeScoredEntity ==
    /\ ep_pc = "merge"
    /\ scored_entities # <<>>
    /\ scored_entity_mappings' =
          AddScoredEntity(scored_entity_mappings, Head(scored_entities))
    /\ scored_entities' = Tail(scored_entities)
    /\ UNCHANGED << ep_pc, provider, entity_graph, ep_keywords,
                    scored_entity_batches, ep_returned, all_entities_map,
                    surfaced, vss_returned,
                    all_reranked_entity_names >>
    /\ UNCHANGED << composite_vars, sgr_vars, krs_vars, guided_vars,
                    processor_vars, later_vars >>

\* the list of the mappings' values, as it is
Unsorted(entities) == entities

\* scored_entities.sort(key=lambda e:e.score, reverse=True): stable
SortEntitiesByScore(entities) == OrderByScoreDesc(<<>>, entities)

\* _get_entities: the values are sorted and returned, to the caller or to
\* EntityVSSProvider._get_entities_by_keyword_match
SortScoredEntities ==
    /\ ep_pc = "merge"
    /\ scored_entities = <<>>
    /\ ep_returned' = SortEntitiesByScore(scored_entity_mappings)
    /\ ep_pc' = IF provider = "EntityVSSProvider" THEN "matched" ELSE "done"
    /\ UNCHANGED << provider, entity_graph, ep_keywords,
                    scored_entity_batches, scored_entities,
                    scored_entity_mappings, all_entities_map, surfaced,
                    vss_returned,
                    all_reranked_entity_names >>
    /\ UNCHANGED << composite_vars, sgr_vars, krs_vars, guided_vars,
                    processor_vars, later_vars >>

InitEntityProvider(providers, graphs, keywordLists) ==
    /\ NoCompositeRetriever
    /\ NoSemanticGuidedRetriever
    /\ NoKeywordRankingSearch
    /\ NoLaterComponent
    /\ NoGuidedRetrieve
    /\ NoProcessor
    /\ ep_pc = "start"
    /\ provider \in providers
    /\ entity_graph \in graphs
    /\ ep_keywords \in keywordLists
    /\ scored_entity_batches = <<>>
    /\ scored_entities = <<>>
    /\ scored_entity_mappings = <<>>
    /\ ep_returned = <<>>
    /\ all_entities_map = <<>>
    /\ surfaced = <<>>
    /\ vss_returned = <<>>
    /\ all_reranked_entity_names = <<>>

InitEntities ==
    InitEntityProvider({ "EntityProvider" }, EntityGraphs,
                       SeqsUpTo(KeywordChoices, MaxKeywords))

NextEntities ==
    \/ GetEntitiesStart
    \/ \E i \in 1..MaxKeywords : GetEntitiesForKeyword(i)
    \/ SumEntityBatches
    \/ MergeScoredEntity
    \/ SortScoredEntities

\* one _get_entities call of an EntityProvider
SpecEntities == InitEntities /\ [][NextEntities]_vars

(***************************************************************************)
(* EntityVSSProvider._get_entities: the entities of the exact keyword      *)
(* match, of the similarity search for the whole query and of the          *)
(* similarity search for the keywords are put into one dict keyed by       *)
(* entityId, reranked and sorted.  What the vector store finds and what    *)
(* the reranker scores are inputs of each step.                            *)
(***************************************************************************)
\* ProcessorArgs.intermediate_limit
DefaultIntermediateLimit == 50

\* the slice [:3] of the entities found by similarity
TopEntities == 3

\* the sets of entities connected to the nodes a similarity search finds
VssEntitySets == { {}, {"e1"}, {"e2", "e3"}, {"e1", "e2", "e3", "e4"} }

\* entity.entity.value.lower()
EntityName(graph, e) == Lower(graph[e].value)

EntityNames == { <<"a">>, <<"b">>, <<"c">> }

\* an entry of the reranker's result, or the absence of a name from it
Ranked(score) == [ ranked |-> TRUE, score |-> score ]

NotRanked == [ ranked |-> FALSE, score |-> [num |-> 0, den |-> 1] ]

\* name -> round(score, 4) dicts a reranker may return
RerankOutcomes ==
    { [ n \in EntityNames |-> NotRanked ],
      [ n \in EntityNames |->
          IF n = <<"a">> THEN Ranked([num |-> 1, den |-> 1])
          ELSE IF n = <<"b">> THEN Ranked([num |-> 1, den |-> 4])
          ELSE NotRanked ],
      [ n \in EntityNames |->
          IF n = <<"a">> THEN Ranked([num |-> 1, den |-> 4])
          ELSE Ranked([num |-> 1, den |-> 1]) ],
      [ n \in EntityNames |->
          IF n = <<"b">> THEN Ranked([num |-> 1, den |-> 1])
          ELSE NotRanked ] }

RECURSIVE ConnectedRows(_, _, _)
\* MATCH ... WITH DISTINCT entity MATCH (entity)-[r]->(): one row per entity
\* connected to the nodes, with count(r) as its score
ConnectedRows(graph, connected, order) ==
    IF order = <<>> THEN <<>>
    ELSE ( IF Head(order) \in connected /\ graph[Head(order)].relations > 0
           THEN << ScoredEntity(Head(order), graph[Head(order)].relations) >>
           ELSE <<>> )
         \o ConnectedRows(graph, connected, Tail(order))

\* list[:n]
Take(list, n) == SubSeq(list, 1, IF n <= Len(list) THEN n ELSE Len(list))

\* _get_entities_for_nodes: ORDER BY score DESC LIMIT $limit
GetEntitiesForNodes(graph, connected, limit) ==
    Take(OrderByScoreDesc(<<>>, ConnectedRows(graph, connected, EntityOrder)),
         limit)

\* the loop of _get_reranked_entities: an entity whose lower-cased value is a
\* key of the dict takes that reranking score, the others keep theirs
AssignRerankingScores(graph, entities, reranked_entity_names) ==
    [ k \in DOMAIN entities |->
        LET entry == reranked_entity_names[EntityName(graph, entities[k].entityId)]
        IN  IF entry.ranked
            THEN [ entities[k] EXCEPT !.reranking_score = entry.score ]
            ELSE entities[k] ]

\* (-a.reranking_score, -a.score) <= (-b.reranking_score, -b.score)
KeyLe(a, b) ==
    \/ ~ ScoreGe(b.reranking_score, a.reranking_score)
    \/ /\ ScoreGe(a.reranking_score, b.reranking_score)
       /\ a.score >= b.score

RECURSIVE InsertByKey(_, _)
InsertByKey(entity, sorted) ==
    IF sorted = <<>> THEN << entity >>
    ELSE IF KeyLe(Head(sorted), entity)
         THEN << Head(sorted) >> \o InsertByKey(entity, Tail(sorted))
         ELSE << entity >> \o sorted

RECURSIVE SortByKey(_, _)
SortByKey(sorted, entities) ==
    IF entities = <<>> THEN sorted
    ELSE SortByKey(InsertByKey(Head(entities), sorted), Tail(entities))

\* a sort by the graph score alone
SortByGraphScore(entities) == OrderByScoreDesc(<<>>, entities)

\* entities.sort(key=lambda e: (-e.reranking_score, -e.score)): stable
SortByRerankingThenScore(entities) == SortByKey(<<>>, entities)

\* _get_reranked_entities
GetRerankedEntities(graph, entities, reranked_entity_names) ==
    SortByRerankingThenScore(
        AssignRerankingScores(graph, entities, reranked_entity_names))

\* _get_entities_for_values
GetEntitiesForValues(graph, connected, limit, reranked_entity_names) ==
    GetRerankedEntities(graph, GetEntitiesForNodes(graph, connected, limit),
                        reranked_entity_names)

\* dict.update with one item: a key that is present keeps its place and
\* takes the new value, a new key is put last
UpdateItem(entities_map, entity) ==
    LET k == KeyIndex(entities_map, entity.entityId)
    IN  IF k = 0 THEN Append(entities_map, entity)
        ELSE [ entities_map EXCEPT ![k] = entity ]

RECURSIVE AddToEntitiesMap(_, _)
\* all_entities_map.update({e.entity.entityId:e for e in entities})
AddToEntitiesMap(entities_map, entities) ==
    IF entities = <<>> THEN entities_map
    ELSE AddToEntitiesMap(UpdateItem(entities_map, Head(entities)),
                          Tail(entities))

\* add_to_entities_map(self._get_entities_by_keyword_match(...))
AddEntitiesByKeywordMatch ==
    /\ ep_pc = "matched"
    /\ all_entities_map' = AddToEntitiesMap(<<>>, ep_returned)
    /\ surfaced' = << ep_returned >>
    /\ ep_pc' = "query_values"
    /\ UNCHANGED << provider, entity_graph, ep_keywords,
                    scored_entity_batches, scored_entities,
                    scored_entity_mappings, ep_returned, vss_returned,
                    all_reranked_entity_names >>
    /\ UNCHANGED << composite_vars, sgr_vars, krs_vars, guided_vars,
                    processor_vars, later_vars >>

\* add_to_entities_map(self._get_entities_for_values(values)[:3]), for the
\* query string and then for the keywords
AddEntitiesForValues ==
    /\ ep_pc \in {"query_values", "keyword_values"}
    /\ \E connected \in VssEntitySets, reranked_entity_names \in RerankOutcomes :
          LET entities ==
                 Take(GetEntitiesForValues(entity_graph, connected,
                                           DefaultIntermediateLimit,
                                           reranked_entity_names),
                      TopEntities)
          IN  /\ all_entities_map' = AddToEntitiesMap(all_entities_map, entities)
              /\ surfaced' = Append(surfaced, entities)
    /\ ep_pc' = IF ep_pc = "query_values" THEN "keyword_values" ELSE "rerank"
    /\ UNCHANGED << provider, entity_graph, ep_keywords,
                    scored_entity_batches, scored_entities,
                    scored_entity_mappings, ep_returned, vss_returned,
                    all_reranked_entity_names >>
    /\ UNCHANGED << composite_vars, sgr_vars, krs_vars, guided_vars,
                    processor_vars, later_vars >>

\* the final rerank of the dict's values, and the return
RerankAllEntities ==
    /\ ep_pc = "rerank"
    /\ \E reranked_entity_names \in RerankOutcomes :
          /\ all_reranked_entity_names' = reranked_entity_names
          /\ vss_returned' = GetRerankedEntities(entity_graph, all_entities_map,
                                                 reranked_entity_names)
    /\ ep_pc' = "vss_done"
    /\ UNCHANGED << provider, entity_graph, ep_keywords,
                    scored_entity_batches, scored_entities,
                    scored_entity_mappings, ep_returned, all_entities_map,
                    surfaced >>
    /\ UNCHANGED << composite_vars, sgr_vars, krs_vars, guided_vars,
                    processor_vars, later_vars >>

InitVSS ==
    InitEntityProvider({ "EntityVSSProvider" }, EntityGraphs,
                       SeqsUpTo(KeywordChoices, MaxKeywords))

NextVSS ==
    \/ GetEntitiesStart
    \/ \E i \in 1..MaxKeywords : GetEntitiesForKeyword(i)
    \/ SumEntityBatches
    \/ MergeScoredEntity
    \/ SortScoredEntities
    \/ AddEntitiesByKeywordMatch
    \/ AddEntitiesForValues
    \/ RerankAllEntities

\* one _get_entities call of an EntityVSSProvider
SpecVSS == InitVSS /\ [][NextVSS]_vars

(***************************************************************************)
(* SemanticGuidedRetriever._retrieve: the initial retrievers run on a      *)
(* pool, their nodes are collected without duplicates, graph retrievers    *)
(* expand the collected nodes one after the other, the statements are      *)
(* fetched and the nodes are ordered by source and score.  What each       *)
(* sub-retriever's retrieve gives is an input of the call.                 *)
(***************************************************************************)
\* the retrievers of self.initial_retrievers and self.graph_retrievers
GuidedInitialRetrievers ==
    << "StatementCosineSimilaritySearch", "KeywordRankingSearch" >>

GuidedGraphRetrievers ==
    << "SemanticBeamGraphSearch", "RerankingBeamGraphSearch" >>

\* a NodeWithScore of a sub-retriever
ScoredNode(retriever, statement_id, num, den) ==
    [ statementId |-> statement_id,
      score       |-> [num |-> num, den |-> den],
      retriever   |-> retriever ]

\* retrieve returned `nodes`, or raised
RetrieveReturns(nodes) == [ raises |-> FALSE, nodes |-> nodes ]

RetrieveRaises == [ raises |-> TRUE, nodes |-> <<>> ]

\* the lists of nodes a sub-retriever may return
NodeLists(retriever) ==
    { <<>>,
      << ScoredNode(retriever, "S1", 1, 2) >>,
      << ScoredNode(retriever, "S2", 1, 1), ScoredNode(retriever, "S1", 1, 4) >>,
      << ScoredNode(retriever, "S3", 3, 4), ScoredNode(retriever, "S2", 1, 2) >> }

\* what retrieve of a sub-retriever may do; KeywordRankingSearch._retrieve
\* catches every exception and returns []
RetrieveOutcomes(retriever) ==
    { RetrieveReturns(nodes) : nodes \in NodeLists(retriever) }
       \cup ( IF retriever = "KeywordRankingSearch" THEN {}
              ELSE { RetrieveRaises } )

\* result['source']['sourceId'] of a statement
SourceOf(statement_id) == IF statement_id = "S2" THEN "source2" ELSE "source1"

\* a future of the pool that is not done
NoResult == [ status |-> "pending", nodes |-> <<>> ]

\* the place of a result in a list filled as the workers finish
ArrivalSlot(done, r) == Cardinality(done) + 1

\* the place of the r-th retriever's result in list(p.map(...))
MapSlot(done, r) == r

\* _retrieve, step 1: the pool is created and the retrievers are submitted
GuidedRetrieveStart ==
    /\ sg_pc = "start"
    /\ initial_results' = [ r \in DOMAIN initial_outputs |-> NoResult ]
    /\ sg_pc' = "initial"
    /\ UNCHANGED << share_results, initial_outputs, graph_outputs,
                    statements_found, retrieved, seen_statement_ids,
                    initial_nodes, all_nodes, collected, expanded,
                    ordered_nodes >>
    /\ UNCHANGED << composite_vars, sgr_vars, krs_vars, entity_vars,
                    processor_vars, later_vars >>

\* a pool worker: r.retrieve(query) of the r-th initial retriever
GuidedInitialRetrieve(r) ==
    /\ sg_pc = "initial"
    /\ r \in DOMAIN initial_outputs
    /\ r \notin retrieved
    /\ retrieved' = retrieved \cup {r}
    /\ initial_results' =
          [ initial_results EXCEPT ![MapSlot(retrieved, r)] =
              [ status |-> IF initial_outputs[r].raises THEN "raised" ELSE "done",
                nodes  |-> initial_outputs[r].nodes ] ]
    /\ UNCHANGED << sg_pc, share_results, initial_outputs, graph_outputs,
                    statements_found, seen_statement_ids, initial_nodes,
                    all_nodes, collected, expanded, ordered_nodes >>
    /\ UNCHANGED << composite_vars, sgr_vars, krs_vars, entity_vars,
                    processor_vars, later_vars >>

\* list(p.map(...)) once every worker has finished: the exception of a
\* worker is raised again and leaves _retrieve
GuidedJoin ==
    /\ sg_pc = "initial"
    /\ retrieved = DOMAIN initial_outputs
    /\ sg_pc' = IF \E r \in DOMAIN initial_results :
                      initial_results[r].status = "raised"
                THEN "raised" ELSE "collect"
    /\ UNCHANGED << share_results, initial_outputs, graph_outputs,
                    statements_found, retrieved, initial_results,
                    seen_statement_ids, initial_nodes, all_nodes, collected,
                    expanded, ordered_nodes >>
    /\ UNCHANGED << composite_vars, sgr_vars, krs_vars, entity_vars,
                    processor_vars, later_vars >>

RECURSIVE AcceptAll(_, _, _)
\* a collection that takes every node
AcceptAll(seen, accepted, nodes) ==
    IF nodes = <<>> THEN [ seen |-> seen, nodes |-> accepted ]
    ELSE AcceptAll(seen \cup { Head(nodes).statementId },
                   Append(accepted, Head(nodes)), Tail(nodes))

RECURSIVE AcceptNew(_, _, _)
\* for node in nodes: if statement_id not in seen_statement_ids: add, append
AcceptNew(seen, accepted, nodes) ==
    IF nodes = <<>> THEN [ seen |-> seen, nodes |-> accepted ]
    ELSE IF Head(nodes).statementId \in seen
         THEN AcceptNew(seen, accepted, Tail(nodes))
         ELSE AcceptNew(seen \cup { Head(nodes).statementId },
                        Append(accepted, Head(nodes)), Tail(nodes))

\* whether step 3 runs its loop
Expands(share, nodes, graph_retrievers) ==
    share /\ nodes # <<>> /\ graph_retrievers # <<>>

\* _retrieve, step 2: one turn of `for nodes in initial_results`; after the
\* last one, all_nodes = initial_nodes.copy()
GuidedCollect ==
    /\ sg_pc = "collect"
    /\ collected < Len(initial_results)
    /\ LET new == AcceptNew(seen_statement_ids, initial_nodes,
                            initial_results[collected + 1].nodes)
       IN  /\ seen_statement_ids' = new.seen
           /\ initial_nodes' = new.nodes
           /\ collected' = collected + 1
           /\ IF collected' = Len(initial_results)
              THEN /\ all_nodes' = new.nodes
                   /\ sg_pc' = IF Expands(share_results, new.nodes, graph_outputs)
                               THEN "expand" ELSE "fetch"
              ELSE UNCHANGED << all_nodes, sg_pc >>
    /\ UNCHANGED << share_results, initial_outputs, graph_outputs,
                    statements_found, retrieved, initial_results, expanded,
                    ordered_nodes >>
    /\ UNCHANGED << composite_vars, sgr_vars, krs_vars, entity_vars,
                    processor_vars, later_vars >>

\* _retrieve, step 3: one turn of `for retriever in self.graph_retrievers`;
\* an exception of retrieve is logged and the loop goes on
GuidedExpand ==
    /\ sg_pc = "expand"
    /\ expanded < Len(graph_outputs)
    /\ LET outcome == graph_outputs[expanded + 1]
           new     == AcceptNew(seen_statement_ids, all_nodes, outcome.nodes)
       IN  IF outcome.raises
           THEN UNCHANGED << seen_statement_ids, all_nodes >>
           ELSE /\ seen_statement_ids' = new.seen
                /\ all_nodes' = new.nodes
    /\ expanded' = expanded + 1
    /\ sg_pc' = IF expanded' = Len(graph_outputs) THEN "fetch" ELSE "expand"
    /\ UNCHANGED << share_results, initial_outputs, graph_outputs,
                    statements_found, retrieved, initial_results,
                    initial_nodes, collected, ordered_nodes >>
    /\ UNCHANGED << composite_vars, sgr_vars, krs_vars, entity_vars,
                    processor_vars, later_vars >>

\* step 5: the nodes whose statement the graph store returned
FinalNodes(nodes, found) ==
    SelectSeq(nodes, LAMBDA node : node.statementId \in found)

RECURSIVE SourceOrder(_, _)
\* the keys of source_nodes, in the order of their first node
SourceOrder(seen, nodes) ==
    IF nodes = <<>> THEN <<>>
    ELSE IF SourceOf(Head(nodes).statementId) \in seen
         THEN SourceOrder(seen, Tail(nodes))
         ELSE << SourceOf(Head(nodes).statementId) >>
              \o SourceOrder(seen \cup { SourceOf(Head(nodes).statementId) },
                             Tail(nodes))

RECURSIVE OrderBySource(_, _)
\* step 7: for each source, its nodes sorted by score, highest first
OrderBySource(sources, nodes) ==
    IF sources = <<>> THEN <<>>
    ELSE SortByScore(<<>>,
             SelectSeq(nodes, LAMBDA node :
                          SourceOf(node.statementId) = Head(sources)))
         \o OrderBySource(Tail(sources), nodes)

\* steps 4 to 7
OrderedNodes(nodes, found) ==
    LET final == FinalNodes(nodes, found)
    IN  OrderBySource(SourceOrder({}, final), final)

\* _retrieve, steps 4 to 7 and the return
GuidedFetchAndOrder ==
    /\ sg_pc = "fetch"
    /\ ordered_nodes' = OrderedNodes(all_nodes, statements_found)
    /\ sg_pc' = "done"
    /\ UNCHANGED << share_results, initial_outputs, graph_outputs,
                    statements_found, retrieved, initial_results,
                    seen_statement_ids, initial_nodes, all_nodes, collected,
                    expanded >>
    /\ UNCHANGED << composite_vars, sgr_vars, krs_vars, entity_vars,
                    processor_vars, later_vars >>

\* the outcomes of a list of retrievers
OutcomeLists(names) ==
    { outcomes \in [ DOMAIN names -> UNION { RetrieveOutcomes(names[k]) :
                                                 k \in DOMAIN names } ] :
        \A k \in DOMAIN names : outcomes[k] \in RetrieveOutcomes(names[k]) }

\* a retriever with the default initial retrievers and with no or with both
\* graph retrievers; the graph store knows every statement or all but S3
InitGuided ==
    /\ NoCompositeRetriever
    /\ NoSemanticGuidedRetriever
    /\ NoKeywordRankingSearch
    /\ NoLaterComponent
    /\ NoEntityProvider
    /\ NoProcessor
    /\ sg_pc = "start"
    /\ share_results \in BOOLEAN
    /\ initial_outputs \in OutcomeLists(GuidedInitialRetrievers)
    /\ graph_outputs \in { <<>> } \cup OutcomeLists(GuidedGraphRetrievers)
    /\ statements_found \in { Statements, Statements \ {"S3"} }
    /\ retrieved = {}
    /\ initial_results = <<>>
    /\ seen_statement_ids = {}
    /\ initial_nodes = <<>>
    /\ all_nodes = <<>>
    /\ collected = 0
    /\ expanded = 0
    /\ ordered_nodes = <<>>

NextGuided ==
    \/ GuidedRetrieveStart
    \/ \E r \in DOMAIN GuidedInitialRetrievers : GuidedInitialRetrieve(r)
    \/ GuidedJoin
    \/ GuidedCollect
    \/ GuidedExpand
    \/ GuidedFetchAndOrder

\* one _retrieve call of a SemanticGuidedRetriever
SpecGuided == InitGuided /\ [][NextGuided]_vars

(***************************************************************************)
(* The post-processors ClearTopicIds and UpdateChunkMetadata.  A           *)
(* SearchResultCollection holds Topic objects; `topic_heap` is the state   *)
(* of these objects and a collection is the list of the objects it refers  *)
(* to.  _apply_to_search_results and _apply_to_topics hand every topic of  *)
(* the collection to the handler and collect what the handler returns.     *)
(***************************************************************************)
\* number of topics in the collection
MaxTopics == 2

\* topic.topicId is None, or an id
TopicIdNone == "None"

\* chunk.metadata: a dict with some of the keys 'value', 'chunkId', 'page'
ChunkMetadatas ==
    { [ k \in keys |-> IF k = "value" THEN v
                       ELSE IF k = "chunkId" THEN "c1" ELSE "7" ] :
        keys \in { K \in SUBSET {"value", "chunkId", "page"} : "page" \in K },
        v \in {"", "promoted"} }

Chunks ==
    [ chunkId : {"c1"}, value : {"None", "text"}, metadata : ChunkMetadatas ]

Topics == [ topicId : {TopicIdNone, "t1"}, chunks : { <<c>> : c \in Chunks } ]

\* dict.pop(key, None): the dict without the key
Pop(metadata, key) == [ k \in DOMAIN metadata \ {key} |-> metadata[k] ]

\* dict.pop(key, None): the value popped, None for a missing key
Popped(metadata, key) ==
    IF key \in DOMAIN metadata THEN metadata[key] ELSE "None"

\* `if value:` is false for None and for the empty string
IsTruthy(value) == value # "None" /\ value # ""

\* a handler that clears the topic id and the chunks' metadata
clear_topic(topic) ==
    [ topicId |-> TopicIdNone,
      chunks  |-> [ k \in DOMAIN topic.chunks |->
                      [ topic.chunks[k] EXCEPT
                          !.metadata = [ key \in {} |-> "" ] ] ] ]

\* ClearTopicIds: clear_topic_id
clear_topic_id(topic) == [ topic EXCEPT !.topicId = TopicIdNone ]

\* UpdateChunkMetadata: the body of `for chunk in topic.chunks`
update_chunk(chunk) ==
    LET value == Popped(chunk.metadata, "value")
    IN  [ chunk EXCEPT
            !.metadata = Pop(Pop(chunk.metadata, "value"), "chunkId"),
            !.value    = IF IsTruthy(value) THEN value ELSE @ ]

\* UpdateChunkMetadata: update_chunks
update_chunks(topic) ==
    [ topic EXCEPT !.chunks = [ k \in DOMAIN topic.chunks |->
                                   update_chunk(topic.chunks[k]) ] ]

\* the handler of a processor
TopicHandler(processor, topic) ==
    IF processor = "ClearTopicIds" THEN clear_topic_id(topic)
    ELSE update_chunks(topic)

\* _apply_to_search_results with _apply_to_topics: the handler is called
\* with every Topic object of the collection and changes it in place; the
\* objects it returns make up the collection that is returned
ApplyToTopics(heap, collection, processor) ==
    [ heap       |-> [ ref \in DOMAIN heap |->
                         IF ref \in Range(collection)
                         THEN TopicHandler(processor, heap[ref])
                         ELSE heap[ref] ],
      collection |-> collection ]

\* processor._process_results(search_results, query) of the next processor
\* of the pipeline, applied to what the one before returned
ProcessResults(processor) ==
    /\ proc_pc = "start"
    /\ applied < Len(pipeline)
    /\ pipeline[applied + 1] = processor
    /\ LET out == ApplyToTopics(topic_heap, processed, processor)
       IN  /\ topic_heap' = out.heap
           /\ processed' = out.collection
    /\ applied' = applied + 1
    /\ proc_pc' = IF applied' = Len(pipeline) THEN "done" ELSE "start"
    /\ UNCHANGED << pipeline, input_collection, input_topics >>
    /\ UNCHANGED << composite_vars, sgr_vars, krs_vars, entity_vars,
                    guided_vars, later_vars >>

Pipelines ==
    { << "ClearTopicIds" >>, << "UpdateChunkMetadata" >>,
      << "ClearTopicIds", "UpdateChunkMetadata" >>,
      << "UpdateChunkMetadata", "ClearTopicIds" >> }

\* a collection of one to MaxTopics topics and a pipeline of processors
InitProcessors ==
    /\ NoCompositeRetriever
    /\ NoSemanticGuidedRetriever
    /\ NoKeywordRankingSearch
    /\ NoLaterComponent
    /\ NoEntityProvider
    /\ NoGuidedRetrieve
    /\ proc_pc = "start"
    /\ pipeline \in Pipelines
    /\ topic_heap \in UNION { [ 1..n -> Topics ] : n \in 1..MaxTopics }
    /\ input_topics = topic_heap
    /\ input_collection = [ k \in DOMAIN topic_heap |-> k ]
    /\ processed = input_collection
    /\ applied = 0

NextProcessors ==
    \/ ProcessResults("ClearTopicIds")
    \/ ProcessResults("UpdateChunkMetadata")

\* a pipeline of post-processors applied to one collection
SpecProcessors == InitProcessors /\ [][NextProcessors]_vars

(***************************************************************************)
(* S3 vector indexes: search_vectors, ingest_vectors, delete_vectors and   *)
(* S3VectorIndex.delete_embeddings.  A vector is its key and its metadata; *)
(* of a metadata dictionary the model keeps the number of fields and the   *)
(* length of the longest key, which is all validate_metadata_limits reads. *)
(***************************************************************************)
MaxVectors == 3

MAX_RESULTS == 100

DEFAULT_BATCH_SIZE == 100

MAX_METADATA_TAGS == 50

NON_FILTERABLE_FIELDS == << "value", "metadata" >>

SOURCE_METADATA_PREFIX ==
    << "s", "o", "u", "r", "c", "e", ".",
       "m", "e", "t", "a", "d", "a", "t", "a", "." >>

MAX_KEY_LENGTH == 63

earlier_vars ==
    << composite_vars, sgr_vars, krs_vars, entity_vars, guided_vars,
       processor_vars >>

NoEarlierComponent ==
    /\ NoCompositeRetriever
    /\ NoSemanticGuidedRetriever
    /\ NoKeywordRankingSearch
    /\ NoEntityProvider
    /\ NoGuidedRetrieve
    /\ NoProcessor

s3_frame == << earlier_vars, gq_vars, lc_vars, egb_vars, sn_vars, enh_vars >>

OnlyS3 ==
    /\ NoEarlierComponent
    /\ NoGraphQuery
    /\ NoLLMCache
    /\ NoEntityGraphBuilder
    /\ NoSharedNodes
    /\ NoEnhancement

gq_frame == << earlier_vars, s3_vars, lc_vars, egb_vars, sn_vars, enh_vars >>

OnlyGraphQuery ==
    /\ NoEarlierComponent
    /\ NoS3Vectors
    /\ NoLLMCache
    /\ NoEntityGraphBuilder
    /\ NoSharedNodes
    /\ NoEnhancement

lc_frame == << earlier_vars, s3_vars, gq_vars, egb_vars, sn_vars, enh_vars >>

OnlyLLMCache ==
    /\ NoEarlierComponent
    /\ NoS3Vectors
    /\ NoGraphQuery
    /\ NoEntityGraphBuilder
    /\ NoSharedNodes
    /\ NoEnhancement

egb_frame == << earlier_vars, s3_vars, gq_vars, lc_vars, sn_vars, enh_vars >>

OnlyEntityGraphBuilder ==
    /\ NoEarlierComponent
    /\ NoS3Vectors
    /\ NoGraphQuery
    /\ NoLLMCache
    /\ NoSharedNodes
    /\ NoEnhancement

sn_frame == << earlier_vars, s3_vars, gq_vars, lc_vars, egb_vars, enh_vars >>

OnlySharedNodes ==
    /\ NoEarlierComponent
    /\ NoS3Vectors
    /\ NoGraphQuery
    /\ NoLLMCache
    /\ NoEntityGraphBuilder
    /\ NoEnhancement

enh_frame == << earlier_vars, s3_vars, gq_vars, lc_vars, egb_vars, sn_vars >>

OnlyEnhancement ==
    /\ NoEarlierComponent
    /\ NoS3Vectors
    /\ NoGraphQuery
    /\ NoLLMCache
    /\ NoEntityGraphBuilder
    /\ NoSharedNodes

\* batch_size=None
NoBatchSize == <<>>

BatchSizes == { NoBatchSize, << 1 >>, << 2 >> }

\* a value that is not a dictionary
NotADict == [ fields |-> 0, longest_key |-> 0, is_dict |-> FALSE ]

Dict(fields, longest_key) ==
    [ fields |-> fields, longest_key |-> longest_key, is_dict |-> TRUE ]

Metadatas ==
    { Dict(0, 0),
      Dict(MAX_METADATA_TAGS - Len(NON_FILTERABLE_FIELDS), 10),
      Dict(MAX_METADATA_TAGS - Len(NON_FILTERABLE_FIELDS) + 1, 10),
      Dict(3, MAX_KEY_LENGTH - Len(SOURCE_METADATA_PREFIX) + 1),
      NotADict }

\* the inputs of ingest_vectors: the i-th vector has the key i
VectorDatas ==
    UNION { { [ i \in 1..n |-> [ key |-> i, metadata |-> md[i] ] ] :
                md \in [ 1..n -> Metadatas ] } : n \in 0..MaxVectors }

VectorIdLists == SeqsUpTo({ 1, 2 }, MaxVectors)

MaxResultsChoices == { 1, 10, MAX_RESULTS, MAX_RESULTS + 1, 2 * MAX_RESULTS }

Responses == { << >>, << 1 >>, << 1, 2 >> }

NoError == [ type |-> "None" ]

validate_metadata_limits(metadata, max_tags, vector_id) ==
    IF ~ metadata.is_dict
    THEN [ type |-> "TypeError", vector_id |-> vector_id ]
    ELSE IF metadata.fields + Len(NON_FILTERABLE_FIELDS) > max_tags
    THEN [ type |-> "ValueError", vector_id |-> vector_id,
           actual_count |-> metadata.fields, max_tags |-> max_tags ]
    ELSE IF metadata.longest_key + Len(SOURCE_METADATA_PREFIX) > MAX_KEY_LENGTH
    THEN [ type |-> "ValueError", vector_id |-> vector_id,
           limit |-> MAX_KEY_LENGTH - Len(SOURCE_METADATA_PREFIX) ]
    ELSE NoError

BatchSize(batch_size) ==
    IF batch_size = NoBatchSize THEN DEFAULT_BATCH_SIZE ELSE batch_size[1]

\* range(0, len(xs), batch_size), as 1-based offsets
BatchStarts(xs, batch_size) ==
    { i \in 1..Len(xs) : (i - 1) % BatchSize(batch_size) = 0 }

NumBatches(xs, batch_size) == Cardinality(BatchStarts(xs, batch_size))

\* xs[i:i + batch_size] of the b-th batch
Batch(xs, batch_size, b) ==
    LET first == (b - 1) * BatchSize(batch_size) + 1
        last  == Min(Len(xs), first + BatchSize(batch_size) - 1)
    IN  SubSeq(xs, first, last)

BatchOutcomes(n) == [ 1..n -> { "ok", "raises" } ]

\* the validation loop of ingest_vectors: the first error raised, if any
RECURSIVE ValidateFrom(_, _)
ValidateFrom(vector_data, i) ==
    IF i > Len(vector_data) THEN NoError
    ELSE LET error == validate_metadata_limits(vector_data[i].metadata,
                                               MAX_METADATA_TAGS,
                                               vector_data[i].key)
         IN  IF error # NoError THEN error
             ELSE ValidateFrom(vector_data, i + 1)

ValidateAll(vector_data) == ValidateFrom(vector_data, 1)

Keys(vector_data) == [ i \in DOMAIN vector_data |-> vector_data[i].key ]

RECURSIVE IngestBatches(_, _, _, _, _)
IngestBatches(vector_data, batch_size, outcomes, b, acc) ==
    IF b > NumBatches(vector_data, batch_size) THEN acc
    ELSE LET batch == Batch(vector_data, batch_size, b)
             put == [ op |-> "put_vectors", keys |-> Keys(batch),
                      outcome |-> outcomes[b] ]
         IN  IngestBatches(vector_data, batch_size, outcomes, b + 1,
               IF outcomes[b] = "ok"
               THEN [ acc EXCEPT
                        !.calls = Append(@, put),
                        !.successful_ingestions = @ + Len(batch),
                        !.ingested_vector_ids = @ \o Keys(batch) ]
               ELSE [ acc EXCEPT
                        !.calls = Append(@, put),
                        !.failed_ingestions = @ + Len(batch),
                        !.errors = Append(@, b) ])

ingest_vectors(vector_data, batch_size, outcomes) ==
    LET error == ValidateAll(vector_data)
        acc == IngestBatches(vector_data, batch_size, outcomes, 1,
                 [ calls |-> << >>, successful_ingestions |-> 0,
                   failed_ingestions |-> 0, errors |-> << >>,
                   ingested_vector_ids |-> << >> ])
    IN  IF error # NoError
        THEN [ calls |-> << >>, raised |-> error ]
        ELSE [ calls |-> acc.calls,
               raised |-> NoError,
               report |->
                 [ total_vectors |-> Len(vector_data),
                   successful_ingestions |-> acc.successful_ingestions,
                   failed_ingestions |-> acc.failed_ingestions,
                   errors |-> acc.errors,
                   ingested_vector_ids |-> acc.ingested_vector_ids ] ]

\* search_vectors that asks for as much as the backend gives
search_vectors_truncated(max_results, response) ==
    [ calls |-> << [ op |-> "query_vectors",
                     topK |-> Min(max_results, MAX_RESULTS) ] >>,
      raised |-> NoError,
      results |-> response ]

search_vectors(max_results, response) ==
    IF max_results > MAX_RESULTS
    THEN [ calls |-> << >>,
           raised |-> [ type |-> "IndexError", max_results |-> max_results,
                        limit |-> MAX_RESULTS ] ]
    ELSE [ calls |-> << [ op |-> "query_vectors", topK |-> max_results ] >>,
           raised |-> NoError,
           results |-> response ]

RECURSIVE DeleteBatches(_, _, _, _, _)
DeleteBatches(vector_ids, batch_size, outcomes, b, acc) ==
    IF b > NumBatches(vector_ids, batch_size) THEN acc
    ELSE LET batch == Batch(vector_ids, batch_size, b)
             delete == [ op |-> "delete_vectors", keys |-> batch,
                         outcome |-> outcomes[b] ]
         IN  DeleteBatches(vector_ids, batch_size, outcomes, b + 1,
               IF outcomes[b] = "ok"
               THEN [ acc EXCEPT
                        !.calls = Append(@, delete),
                        !.successful_deletions = @ + Len(vector_ids) ]
               ELSE [ acc EXCEPT
                        !.calls = Append(@, delete),
                        !.failed_deletions = @ + Len(vector_ids),
                        !.errors = Append(@, b),
                        !.failed_vector_ids = @ \o batch ])

delete_vectors(vector_ids, batch_size, outcomes) ==
    LET acc == DeleteBatches(vector_ids, batch_size, outcomes, 1,
                 [ calls |-> << >>, successful_deletions |-> 0,
                   failed_deletions |-> 0, errors |-> << >>,
                   failed_vector_ids |-> << >> ])
    IN  [ calls |-> acc.calls,
          raised |-> NoError,
          report |->
            [ total_requested |-> Len(vector_ids),
              successful_deletions |-> acc.successful_deletions,
              failed_deletions |-> acc.failed_deletions,
              errors |-> acc.errors,
              failed_vector_ids |-> acc.failed_vector_ids ] ]

delete_embeddings(ids, outcomes) ==
    LET delete_vectors_results == delete_vectors(ids, NoBatchSize, outcomes)
    IN  [ calls |-> delete_vectors_results.calls,
          raised |-> NoError,
          failed |-> IF delete_vectors_results.report.failed_deletions > 0
                     THEN delete_vectors_results.report.failed_vector_ids
                     ELSE << >> ]

S3Call(request, out) ==
    /\ s3_pc = "idle"
    /\ s3_pc' = "done"
    /\ s3_request' = request
    /\ s3_calls' = out.calls
    /\ s3_result' = [ c \in DOMAIN out \ { "calls" } |-> out[c] ]
    /\ UNCHANGED s3_frame

SearchVectors ==
    \E max_results \in MaxResultsChoices, response \in Responses :
        S3Call([ op |-> "search_vectors", max_results |-> max_results ],
               search_vectors(max_results, response))

IngestVectors ==
    \E vector_data \in VectorDatas, batch_size \in BatchSizes :
        \E outcomes \in BatchOutcomes(
               IF ValidateAll(vector_data) # NoError THEN 0
               ELSE NumBatches(vector_data, batch_size)) :
            S3Call([ op |-> "ingest_vectors", vector_data |-> vector_data,
                     batch_size |-> batch_size ],
                   ingest_vectors(vector_data, batch_size, outcomes))

DeleteVectors ==
    \E vector_ids \in VectorIdLists, batch_size \in BatchSizes :
        \E outcomes \in BatchOutcomes(NumBatches(vector_ids, batch_size)) :
            S3Call([ op |-> "delete_vectors", vector_ids |-> vector_ids,
                     batch_size |-> batch_size, outcomes |-> outcomes ],
                   delete_vectors(vector_ids, batch_size, outcomes))

DeleteEmbeddings ==
    \E ids \in VectorIdLists :
        \E outcomes \in BatchOutcomes(NumBatches(ids, NoBatchSize)) :
            S3Call([ op |-> "delete_embeddings", ids |-> ids,
                     outcomes |-> outcomes ],
                   delete_embeddings(ids, outcomes))

InitS3 ==
    /\ OnlyS3
    /\ s3_pc = "idle"
    /\ s3_request = << >>
    /\ s3_calls = << >>
    /\ s3_result = << >>

NextS3 ==
    \/ SearchVectors
    \/ IngestVectors
    \/ DeleteVectors
    \/ DeleteEmbeddings

\* one call on an S3 vector index
SpecS3 == InitS3 /\ [][NextS3]_vars

(***************************************************************************)
(* GraphQueryRetriever.retrieve (byokg-rag), as test_cypher_error_feedback *)
(* and the error taxonomy describe it.  A text is the sequence of the      *)
(* pieces it is formatted from.                                            *)
(***************************************************************************)
MaxRetrieves == 2

GraphQueries == { "MATCH (n) RETURN n", "MATCH (n) RETURN n.name",
                  "MATCH (n) RETURN m" }

ExceptionTypes == { "SyntaxError", "RuntimeError", "ValueError" }

ExceptionMessages == { "Variable x not defined", "Connection timeout" }

RowLists == { << >>, << "Alice" >>, << "Alice", "Bob" >> }

QueryRaises(type, message) ==
    [ raises |-> TRUE, type |-> type, message |-> message, rows |-> << >> ]

QueryReturns(rows) ==
    [ raises |-> FALSE, type |-> "", message |-> "", rows |-> rows ]

\* what graph_store.execute_query can do
ExecuteQueryOutcomes ==
    { QueryRaises(t, msg) : t \in ExceptionTypes, msg \in ExceptionMessages }
        \cup { QueryReturns(rows) : rows \in RowLists }

\* a retrieve that lets the exception of the graph store through
retrieve_propagating(query, executed, return_answers) ==
    IF executed.raises
    THEN [ raised |-> TRUE, type |-> executed.type,
           context |-> << >>, answers |-> << >>,
           return_answers |-> return_answers ]
    ELSE [ raised |-> FALSE, type |-> "",
           context |-> << << "Graph Query: ", query,
                             "\nExecution Result: ", executed.rows >> >>,
           answers |-> executed.rows,
           return_answers |-> return_answers ]

retrieve(query, executed, return_answers) ==
    IF executed.raises
    THEN [ raised |-> FALSE, type |-> "",
           context |-> << << "Error executing query: ", query,
                             "\nError: ", executed.type, ": ",
                             executed.message >> >>,
           answers |-> << >>,
           return_answers |-> return_answers ]
    ELSE [ raised |-> FALSE, type |-> "",
           context |-> << << "Graph Query: ", query,
                             "\nExecution Result: ", executed.rows >> >>,
           answers |-> executed.rows,
           return_answers |-> return_answers ]

GraphQueryRetrieve ==
    \E query \in GraphQueries, executed \in ExecuteQueryOutcomes,
       return_answers \in BOOLEAN :
        /\ gq_pc = "ready"
        /\ gq_retrieves < MaxRetrieves
        /\ gq_retrieves' = gq_retrieves + 1
        /\ gq_query' = query
        /\ gq_executed' = executed
        /\ gq_returned' = retrieve(query, executed, return_answers)
        /\ UNCHANGED gq_pc
        /\ UNCHANGED gq_frame

InitGraphQuery ==
    /\ OnlyGraphQuery
    /\ gq_pc = "ready"
    /\ gq_retrieves = 0
    /\ gq_query = << >>
    /\ gq_executed = << >>
    /\ gq_returned = << >>

NextGraphQuery == GraphQueryRetrieve

\* calls of retrieve on one GraphQueryRetriever
SpecGraphQuery == InitGraphQuery /\ [][NextGraphQuery]_vars

(***************************************************************************)
(* LLMCache.predict.  A text is a sequence of characters, of which "CR"    *)
(* and "LF" are the carriage return and the line feed.  The cache file of  *)
(* a key is named by the sha256 digest of the key, taken here to be        *)
(* injective: a file is known by its cache_key.                            *)
(***************************************************************************)
MaxPredicts == 3

\* self.llm.to_json()
ModelConfigs == { << "{", "m1", "}" >>, << "{", "m2", "}" >> }

\* prompt.format(**prompt_args)
FormattedPrompts == { << "p" >>, << "p", ",", "q" >> }

\* f'{self.llm.to_json()},{prompt.format(**prompt_args)}'
CacheKey(config, formatted) == config \o << "," >> \o formatted

CacheKeys ==
    { CacheKey(config, formatted) :
        config \in ModelConfigs, formatted \in FormattedPrompts }

LlmTexts ==
    { << "a" >>, << "a", "LF", "b" >>, << "a", "CR", "LF", "b" >> }

LlmPredictRaises == [ raises |-> TRUE, text |-> << >> ]

LlmPredictReturns(text) == [ raises |-> FALSE, text |-> text ]

\* what self.llm.predict can do
LlmPredictOutcomes ==
    { LlmPredictRaises } \cup { LlmPredictReturns(t) : t \in LlmTexts }

LineSeps == { << "LF" >>, << "CR", "LF" >> }

\* f.write(response) of a file opened with open(cache_file, 'w'): every
\* line feed is written as os.linesep
RECURSIVE WriteText(_, _)
WriteText(text, sep) ==
    IF text = << >> THEN << >>
    ELSE ( IF Head(text) = "LF" THEN sep ELSE << Head(text) >> )
             \o WriteText(Tail(text), sep)

\* f.read() of a file opened with open(cache_file, 'r'): universal newlines,
\* "CR LF" and "CR" are read as a line feed
RECURSIVE ReadText(_)
ReadText(content) ==
    IF content = << >> THEN << >>
    ELSE IF Head(content) = "CR"
    THEN << "LF" >>
           \o ReadText(IF Len(content) > 1 /\ content[2] = "LF"
                       THEN Tail(Tail(content)) ELSE Tail(content))
    ELSE << Head(content) >> \o ReadText(Tail(content))

NoResponse == << "None" >>

\* os.path.exists(cache_file)
Exists(files, cache_key) == cache_key \in DOMAIN files

WriteFile(files, cache_key, content) ==
    [ k \in DOMAIN files \cup { cache_key } |->
        IF k = cache_key THEN content ELSE files[k] ]

\* predict: the value returned or the error raised, and the files afterwards
predict(enabled, files, sep, cache_key, llm) ==
    IF ~ enabled
    THEN [ raised |-> IF llm.raises THEN "ModelError" ELSE "None",
           response |-> IF llm.raises THEN NoResponse ELSE llm.text,
           llm_invoked |-> TRUE,
           files |-> files ]
    ELSE IF Exists(files, cache_key)
    THEN [ raised |-> "None",
           response |-> ReadText(files[cache_key]),
           llm_invoked |-> FALSE,
           files |-> files ]
    ELSE IF llm.raises
    THEN [ raised |-> "ModelError",
           response |-> NoResponse,
           llm_invoked |-> TRUE,
           files |-> files ]
    ELSE [ raised |-> "None",
           response |-> llm.text,
           llm_invoked |-> TRUE,
           files |-> WriteFile(files, cache_key, WriteText(llm.text, sep)) ]

Predict ==
    \E config \in ModelConfigs, formatted \in FormattedPrompts,
       llm \in LlmPredictOutcomes :
        LET cache_key == CacheKey(config, formatted)
            out == predict(enable_cache, cache_dir, linesep, cache_key, llm)
        IN  /\ lc_pc = "ready"
            /\ predicts < MaxPredicts
            /\ predicts' = predicts + 1
            /\ cache_dir' = out.files
            /\ last_predict' =
                 [ cache_key |-> cache_key,
                   raised |-> out.raised,
                   response |-> out.response,
                   llm_invoked |-> out.llm_invoked,
                   returned_before |-> first_response[cache_key] ]
            /\ first_response' =
                 IF out.raised = "None"
                    /\ first_response[cache_key] = NoResponse
                 THEN [ first_response EXCEPT ![cache_key] = out.response ]
                 ELSE first_response
            /\ UNCHANGED << lc_pc, enable_cache, linesep >>
            /\ UNCHANGED lc_frame

InitLLMCache ==
    /\ OnlyLLMCache
    /\ lc_pc = "ready"
    /\ enable_cache \in BOOLEAN
    /\ linesep \in LineSeps
    /\ cache_dir = << >>
    /\ predicts = 0
    /\ first_response = [ k \in CacheKeys |-> NoResponse ]
    /\ last_predict = << >>

NextLLMCache == Predict

\* calls of predict on one LLMCache, one after the other
SpecLLMCache == InitLLMCache /\ [][NextLLMCache]_vars

(***************************************************************************)
(* EntityGraphBuilder.build.  A query is kept as what it writes: the       *)
(* entity-insert query as the entities it MERGEs with the properties it    *)
(* sets, a domain-label query as the identifier it MERGEs and the label it *)
(* sets.                                                                   *)
(***************************************************************************)
DEFAULT_CLASSIFICATION == << "d", "e", "f", "a", "u", "l", "t" >>

LOCAL_ENTITY_CLASSIFICATION == << "l", "o", "c", "a", "l" >>

\* classification=None
NoClassification == << >>

Classifications ==
    { NoClassification, << "P" >>, LOCAL_ENTITY_CLASSIFICATION }

Entity(entityId, value, classification) ==
    [ kind |-> "entity", entityId |-> entityId, value |-> value,
      classification |-> classification ]

\* object=None, complement=None
NoEntity == [ kind |-> "none", entityId |-> "None", value |-> << >>,
              classification |-> NoClassification ]

\* a complement that is a string
StringComplement(text) ==
    [ kind |-> "string", entityId |-> "None", value |-> text,
      classification |-> NoClassification ]

FactSubjects ==
    { Entity("e1", << "A", " ", "B" >>, c) : c \in Classifications }

FactObjects ==
    { NoEntity }
        \cup { Entity("e1", << "A", " ", "B" >>, << "P" >>) }
        \cup { Entity("e2", << "B" >>, c) : c \in Classifications }

FactComplements ==
    { NoEntity, StringComplement(<< "a", " ", "B" >>),
      Entity("e3", << "a" >>, << "P" >>),
      Entity("e1", << "A", " ", "B" >>, << "P" >>) }

Fact(subject, object, complement) ==
    [ subject |-> subject, object |-> object, complement |-> complement ]

\* node.metadata without 'fact'
NoFact == << >>

Facts ==
    { Fact(s, o, c) :
        s \in FactSubjects, o \in FactObjects, c \in FactComplements }

BuildKwargs ==
    [ include_domain_labels : BOOLEAN, include_local_entities : BOOLEAN ]

\* the identifier of the entity made of a string complement
LocalEntityId(text) == "local"

string_complement_to_entity(fact) ==
    IF fact.complement.kind = "string"
    THEN [ fact EXCEPT !.complement =
             Entity(LocalEntityId(fact.complement.value),
                    fact.complement.value, LOCAL_ENTITY_CLASSIFICATION) ]
    ELSE fact

\* fact.object, fact.complement as conditions
IsSet(entity) == entity.kind # "none"

\* classification or DEFAULT_CLASSIFICATION
ClassOf(entity) ==
    IF entity.classification = NoClassification THEN DEFAULT_CLASSIFICATION
    ELSE entity.classification

label_from(classification) == << "label" >> \o classification

\* MERGE (x:`__Entity__`{entityId: ...}) ON CREATE SET ... ON MATCH SET ...
MergeWithProperties(entity) ==
    [ entityId |-> entity.entityId,
      value |-> entity.value,
      search_str |-> search_string_from(entity.value),
      class |-> ClassOf(entity) ]

\* MERGE (x:`__Entity__`{entityId: ...}) SET x :`label`
LabelQuery(entity) ==
    [ kind |-> "label", entityId |-> entity.entityId,
      label |-> label_from(ClassOf(entity)), merged |-> << >> ]

\* the entity-insert query: lines 82-135
InsertQuery(fact, kwargs) ==
    [ kind |-> "insert", entityId |-> "None", label |-> << >>,
      merged |->
        << MergeWithProperties(fact.subject) >>
          \o ( IF IsSet(fact.object)
                  /\ fact.object.entityId # fact.subject.entityId
               THEN << MergeWithProperties(fact.object) >>
               ELSE IF kwargs.include_local_entities
                       /\ IsSet(fact.complement)
                       /\ fact.complement.entityId # fact.subject.entityId
               THEN << MergeWithProperties(fact.complement) >>
               ELSE << >> ) ]

\* the domain-label queries: lines 137-162
LabelQueries(fact, kwargs) ==
    IF ~ kwargs.include_domain_labels THEN << >>
    ELSE << LabelQuery(fact.subject) >>
           \o ( IF IsSet(fact.object)
                   /\ fact.object.entityId # fact.subject.entityId
                THEN << LabelQuery(fact.object) >> ELSE << >> )
           \o ( IF kwargs.include_local_entities
                   /\ IsSet(fact.complement)
                   /\ fact.complement.entityId # fact.subject.entityId
                THEN << LabelQuery(fact.complement) >> ELSE << >> )

\* lines 75-78
IgnoresFact(fact, kwargs) ==
    /\ fact.subject.classification # NoClassification
    /\ fact.subject.classification = LOCAL_ENTITY_CLASSIFICATION
    /\ ~ kwargs.include_local_entities

\* the queries build executes for the fact metadata of a node
build(fact_metadata, kwargs) ==
    IF fact_metadata = NoFact THEN << >>
    ELSE LET fact == string_complement_to_entity(fact_metadata)
         IN  IF IgnoresFact(fact, kwargs) THEN << >>
             ELSE << InsertQuery(fact, kwargs) >> \o LabelQueries(fact, kwargs)

Build ==
    \E fact_metadata \in Facts \cup { NoFact }, kwargs \in BuildKwargs :
        /\ egb_pc = "ready"
        /\ egb_pc' = "done"
        /\ egb_fact' = IF fact_metadata = NoFact THEN NoFact
                       ELSE string_complement_to_entity(fact_metadata)
        /\ egb_kwargs' = kwargs
        /\ egb_queries' = build(fact_metadata, kwargs)
        /\ UNCHANGED egb_frame

InitEntityGraphBuilder ==
    /\ OnlyEntityGraphBuilder
    /\ egb_pc = "ready"
    /\ egb_fact = << >>
    /\ egb_kwargs = << >>
    /\ egb_queries = << >>

NextEntityGraphBuilder == Build

\* one call of build
SpecEntityGraphBuilder ==
    InitEntityGraphBuilder /\ [][NextEntityGraphBuilder]_vars

(***************************************************************************)
(* Step 3 of SemanticGuidedRetriever._retrieve, for calls that run at the  *)
(* same time on one retriever: the graph retrievers are objects of the     *)
(* SemanticGuidedRetriever, made once in __init__, and shared_nodes is an  *)
(* attribute of each of them.  A node is its statement identifier.         *)
(***************************************************************************)
MaxConcurrentCalls == 2

ConcurrentCalls == 1..MaxConcurrentCalls

\* shared_nodes before any call has assigned it
NoSharedNodesYet == << "None" >>

\* the initial_nodes of a call, for the query of the call
InitialNodeLists(c) ==
    IF c = 1 THEN { << >>, << "S1" >>, << "S1", "S2" >> }
    ELSE { << >>, << "S2" >>, << "S3", "S2" >> }

GraphRetrieverLists ==
    { SubSeq(GuidedGraphRetrievers, 1, n) : n \in 1..Len(GuidedGraphRetrievers) }

\* the statement a beam search reaches from a statement
Neighbour(statement_id) ==
    IF statement_id = "S1" THEN "S2"
    ELSE IF statement_id = "S2" THEN "S3"
    ELSE "S1"

\* retriever.retrieve of a graph retriever: the statements reached from the
\* shared nodes it starts from
ExpandFrom(nodes) ==
    IF nodes = NoSharedNodesYet THEN << >>
    ELSE [ k \in DOMAIN nodes |-> Neighbour(nodes[k]) ]

\* lines 111-115: the nodes whose statement has not been seen are appended
RECURSIVE AppendUnseen(_, _)
AppendUnseen(nodes, graph_nodes) ==
    IF graph_nodes = << >> THEN nodes
    ELSE AppendUnseen(
           IF Head(graph_nodes) \in Range(nodes) THEN nodes
           ELSE Append(nodes, Head(graph_nodes)),
           Tail(graph_nodes))

\* line 101 and the condition of line 106
ExpansionStart(c) ==
    /\ sn_pc[c] = "start"
    /\ sn_all_nodes' = [ sn_all_nodes EXCEPT ![c] = sn_initial_nodes[c] ]
    /\ sn_pc' = [ sn_pc EXCEPT ![c] =
                    IF sn_share_results /\ sn_initial_nodes[c] # << >>
                    THEN "assign" ELSE "done" ]
    /\ UNCHANGED << sn_share_results, sn_graph_retrievers, sn_retriever,
                    sn_initial_nodes, shared_nodes, sn_expanded_from >>
    /\ UNCHANGED sn_frame

\* line 109: retriever.shared_nodes = initial_nodes
AssignSharedNodes(c) ==
    /\ sn_pc[c] = "assign"
    /\ shared_nodes' =
         [ shared_nodes EXCEPT ![sn_retriever[c]] = sn_initial_nodes[c] ]
    /\ sn_pc' = [ sn_pc EXCEPT ![c] = "retrieve" ]
    /\ UNCHANGED << sn_share_results, sn_graph_retrievers, sn_retriever,
                    sn_initial_nodes, sn_all_nodes, sn_expanded_from >>
    /\ UNCHANGED sn_frame

\* lines 110-115: retriever.retrieve(query_bundle) starts from the
\* retriever's shared_nodes as they are when it runs
ExpandRetrieve(c) ==
    /\ sn_pc[c] = "retrieve"
    /\ LET read == shared_nodes[sn_retriever[c]]
       IN  /\ sn_expanded_from' =
                [ sn_expanded_from EXCEPT ![c] = Append(@, read) ]
           /\ sn_all_nodes' =
                [ sn_all_nodes EXCEPT
                    ![c] = AppendUnseen(@, ExpandFrom(read)) ]
    /\ sn_retriever' = [ sn_retriever EXCEPT ![c] = @ + 1 ]
    /\ sn_pc' = [ sn_pc EXCEPT ![c] =
                    IF sn_retriever[c] = Len(sn_graph_retrievers)
                    THEN "done" ELSE "assign" ]
    /\ UNCHANGED << sn_share_results, sn_graph_retrievers, sn_initial_nodes,
                    shared_nodes >>
    /\ UNCHANGED sn_frame

InitSharedNodes ==
    /\ OnlySharedNodes
    /\ sn_pc = [ c \in ConcurrentCalls |-> "start" ]
    /\ sn_share_results \in BOOLEAN
    /\ sn_graph_retrievers \in GraphRetrieverLists
    /\ sn_retriever = [ c \in ConcurrentCalls |-> 1 ]
    /\ sn_initial_nodes \in
         { f \in [ ConcurrentCalls -> UNION { InitialNodeLists(c) :
                                                c \in ConcurrentCalls } ] :
             \A c \in ConcurrentCalls : f[c] \in InitialNodeLists(c) }
    /\ sn_all_nodes = [ c \in ConcurrentCalls |-> << >> ]
    /\ shared_nodes = [ r \in DOMAIN sn_graph_retrievers |-> NoSharedNodesYet ]
    /\ sn_expanded_from = [ c \in ConcurrentCalls |-> << >> ]

NextSharedNodes ==
    \E c \in ConcurrentCalls :
        \/ ExpansionStart(c)
        \/ AssignSharedNodes(c)
        \/ ExpandRetrieve(c)

\* concurrent calls of _retrieve on one SemanticGuidedRetriever
SpecSharedNodes == InitSharedNodes /\ [][NextSharedNodes]_vars

(***************************************************************************)
(* StatementEnhancementPostProcessor._postprocess_nodes.  A response is a  *)
(* sequence of characters, of which OpenTag and CloseTag stand for the two *)
(* tags of the pattern.                                                    *)
(***************************************************************************)
MaxNodes == 2

OpenTag == "<modified_statement>"

CloseTag == "</modified_statement>"

\* a NodeWithScore: the statement, the text of the node and the score
StatementNode(statement_id, text, score) ==
    [ statement |-> statement_id, text |-> text, score |-> score ]

InputNodes ==
    { StatementNode("S1", << "a" >>, 2), StatementNode("S2", << "B" >>, 1),
      StatementNode("S3", << "a" >>, 2) }

InputNodeLists == SeqsUpTo(InputNodes, MaxNodes)

PredictRaises == [ raises |-> TRUE, text |-> << >> ]

PredictReturns(text) == [ raises |-> FALSE, text |-> text ]

\* what self.llm.predict can do for a node
PredictOutcomes ==
    { PredictRaises,
      PredictReturns(<< "a" >>),
      PredictReturns(<< OpenTag, "a", " ", "B" >>),
      PredictReturns(<< OpenTag, " ", "B", " ", CloseTag >>),
      PredictReturns(<< "a", OpenTag, CloseTag, "B", CloseTag >>) }

\* re.search(pattern, response, re.DOTALL): the first OpenTag that has a
\* CloseTag after it, and the nearest such CloseTag
Opens(response) ==
    { i \in DOMAIN response :
        /\ response[i] = OpenTag
        /\ \E j \in DOMAIN response : j > i /\ response[j] = CloseTag }

HasMatch(response) == Opens(response) # {}

FirstOpen(response) ==
    CHOOSE i \in Opens(response) : \A k \in Opens(response) : i <= k

FirstClose(response, i) ==
    CHOOSE j \in DOMAIN response :
        /\ j > i
        /\ response[j] = CloseTag
        /\ \A k \in DOMAIN response :
               ( k > i /\ response[k] = CloseTag ) => j <= k

\* match.group(1)
Group1(response) ==
    LET i == FirstOpen(response)
    IN  SubSeq(response, i + 1, FirstClose(response, i) - 1)

enhance_statement(node, predicted) ==
    IF predicted.raises THEN [ raised |-> FALSE, node |-> node ]
    ELSE IF HasMatch(predicted.text)
    THEN [ raised |-> FALSE,
           node |-> StatementNode(node.statement,
                                  Strip(Group1(predicted.text)), node.score) ]
    ELSE [ raised |-> FALSE, node |-> node ]

\* a future that is not done
NotEnhanced == [ raised |-> FALSE, node |-> << >> ]

\* results kept in the order in which the workers finish
CompletionSlot(i, order) == Len(order) + 1

\* executor.map: the result of the i-th node is the i-th result
ResultSlot(i, order) == i

\* line 88-89: the nodes are submitted to the pool
PostprocessStart ==
    /\ enh_pc = "start"
    /\ enh_pc' = "running"
    /\ enh_results' = [ i \in DOMAIN enh_nodes |-> NotEnhanced ]
    /\ enh_responses' = [ i \in DOMAIN enh_nodes |-> << >> ]
    /\ UNCHANGED << enh_nodes, enh_order, enh_returned >>
    /\ UNCHANGED enh_frame

\* a worker runs enhance_statement for the i-th node
EnhanceStatement(i) ==
    /\ enh_pc = "running"
    /\ i \in DOMAIN enh_nodes
    /\ i \notin Range(enh_order)
    /\ \E predicted \in PredictOutcomes :
        /\ enh_responses' = [ enh_responses EXCEPT ![i] = predicted ]
        /\ enh_results' =
             [ enh_results EXCEPT ![ResultSlot(i, enh_order)] =
                 enhance_statement(enh_nodes[i], predicted) ]
    /\ enh_order' = Append(enh_order, i)
    /\ UNCHANGED << enh_pc, enh_nodes, enh_returned >>
    /\ UNCHANGED enh_frame

\* list(executor.map(...)): the results in order; the exception of a worker
\* is raised again
PostprocessReturn ==
    /\ enh_pc = "running"
    /\ Len(enh_order) = Len(enh_nodes)
    /\ IF \E i \in DOMAIN enh_results : enh_results[i].raised
       THEN /\ enh_pc' = "raised"
            /\ UNCHANGED enh_returned
       ELSE /\ enh_pc' = "done"
            /\ enh_returned' =
                 [ i \in DOMAIN enh_results |-> enh_results[i].node ]
    /\ UNCHANGED << enh_nodes, enh_responses, enh_results, enh_order >>
    /\ UNCHANGED enh_frame

InitEnhancement ==
    /\ OnlyEnhancement
    /\ enh_pc = "start"
    /\ enh_nodes \in InputNodeLists
    /\ enh_responses = << >>
    /\ enh_results = << >>
    /\ enh_order = << >>
    /\ enh_returned = << >>

NextEnhancement ==
    \/ PostprocessStart
    \/ \E i \in 1..MaxNodes : EnhanceStatement(i)
    \/ PostprocessReturn

\* one call of _postprocess_nodes
SpecEnhancement == InitEnhancement /\ [][NextEnhancement]_vars

(***************************************************************************)
(* Properties of the composite retriever.                                  *)
(***************************************************************************)
\* the sub-retriever tasks of the running do_graph_search call
Tasks ==
    UNION { { <<i, j>> : j \in DOMAIN scored_node_batches[i] } :
              i \in DOMAIN scored_node_batches }

\* the constructor's list with the default substituted for None
GivenRetrievers ==
    IF retrievers = <<>> THEN DEFAULT_TRAVERSAL_BASED_RETRIEVERS ELSE retrievers

\* C1: the collection returned by do_graph_search holds every statement that
\* some sub-retriever returned for some subquery, each exactly once.
C1_MergedStatementsAreUnique ==
    pc = "done" =>
        /\ \A a, b \in DOMAIN search_results :
              search_results[a] = search_results[b] => a = b
        /\ Range(search_results) =
              UNION { Range(scored_node_batches[t[1]][t[2]].nodes) : t \in Tasks }

\* two sub-retrievers returned {S1, S2} and {S2, S3}; the merge is S1, S2, S3
C1_Witness ==
    /\ pc = "done"
    /\ \E t, u \in Tasks :
          /\ scored_node_batches[t[1]][t[2]].nodes = <<"S1", "S2">>
          /\ scored_node_batches[u[1]][u[2]].nodes = <<"S2", "S3">>
    /\ search_results = <<"S1", "S2", "S3">>

\* C2: do_graph_search never raises because a sub-retriever raised, and the
\* statements of every sub-retriever that returned are in its result.
C2_FailingSubRetrieverIsIsolated ==
    pc \in {"done", "raised"} =>
        /\ pc = "done"
        /\ \A t \in Tasks :
              scored_node_batches[t[1]][t[2]].status = "done" =>
                 Range(scored_node_batches[t[1]][t[2]].nodes)
                    \subseteq Range(search_results)

\* the sub-retrievers built for the subqueries, with their place in the list
Built ==
    UNION { { [ j |-> j, r |-> sub_retrievers[i][j] ] :
                j \in DOMAIN sub_retrievers[i] } :
              i \in DOMAIN sub_retrievers }

\* C3 as stated: the budget derived for a sub-retriever never exceeds the
\* composite's max_search_results, whatever the weight.
C3_BudgetNeverExceedsUnscaled ==
    \A b \in Built : b.r.sub_args.max_search_results <= args.max_search_results

\* C3: for a weight of at most 1 the budget derived for a sub-retriever does
\* not exceed the composite's max_search_results.
C3_BudgetWithinUnscaledUpToWeightOne ==
    \A b \in Built :
        b.r.weight.num <= b.r.weight.den =>
            b.r.sub_args.max_search_results <= args.max_search_results

\* a quarter of 3 results is a budget of 1
C3_Witness ==
    \E b \in Built :
        /\ b.r.weight = [num |-> 1, den |-> 4]
        /\ args.max_search_results = 3
        /\ b.r.sub_args.max_search_results = 1

\* the weight the constructor's j-th entry stands for
GivenWeight(j) ==
    IF GivenRetrievers[j].isWeighted THEN GivenRetrievers[j].weight
    ELSE [num |-> 1, den |-> 1]

\* n is the least integer that is at least m * w
IsCeilOfProduct(n, m, w) ==
    /\ n * w.den >= m * w.num
    /\ (n - 1) * w.den < m * w.num

\* C4: a sub-retriever constructed by the composite has max_search_results
\* ceil(max_search_results * weight), the weight being 1.0 for an entry given
\* without one; 20 results give 20 at weight 1.0 and 10 at weight 0.5.
C4_BudgetIsCeilOfWeightedMax ==
    \A b \in Built :
        ~ b.r.isInstance =>
            /\ IsCeilOfProduct(b.r.args.max_search_results,
                               args.max_search_results, GivenWeight(b.j))
            /\ ( /\ args.max_search_results = 20
                 /\ GivenWeight(b.j) = [num |-> 1, den |-> 1] )
                    => b.r.args.max_search_results = 20
            /\ ( /\ args.max_search_results = 20
                 /\ GivenWeight(b.j) = [num |-> 1, den |-> 2] )
                    => b.r.args.max_search_results = 10

\* a bare retriever class and one of weight 0.5 under max_search_results = 20
C4_Witness ==
    /\ args.max_search_results = 20
    /\ \E b, c \in Built :
          /\ ~ GivenRetrievers[b.j].isWeighted
          /\ ~ b.r.isInstance
          /\ b.r.args.max_search_results = 20
          /\ GivenRetrievers[c.j].isWeighted
          /\ c.r.weight = [num |-> 1, den |-> 2]
          /\ ~ c.r.isInstance
          /\ c.r.args.max_search_results = 10

\* C5: the retriever that executes retrieve has its reranker forced to tfidf
\* and its max_search_results set to the weighted budget, be it configured as
\* a class or as an instance.
C5_EverySubRetrieverRunsDerivedConfig ==
    \A b \in Built :
        /\ b.r.args.reranker = "tfidf"
        /\ b.r.args.max_search_results = b.r.sub_args.max_search_results

\* C6: with derive_subqueries off, exactly one subquery, the original query,
\* is dispatched and the decomposition is not called, whatever max_subqueries.
C6_NoDecompositionDispatchesOriginal ==
    ~ args.derive_subqueries =>
        /\ decompose_calls = 0
        /\ pc \in {"running", "done", "raised"} =>
              /\ subqueries = << OriginalQuery >>
              /\ DOMAIN stage = {1}

\* a search finished without decomposition although max_subqueries is 2
C6_Witness ==
    /\ ~ args.derive_subqueries
    /\ args.max_subqueries = 2
    /\ pc = "done"
    /\ Len(search_results) > 0

C9_NoKeywordsNoQuery ==
    ( krs_pc \notin {"none", "start"} /\ keywords = {} ) =>
        /\ krs_pc = "done"
        /\ returned = <<>>
        /\ execute_query_calls = 0
        /\ get_embeddings_calls = 0

\* an LLM call raised, get_keywords gave the empty set, _retrieve returned
C9_Witness ==
    /\ krs_pc = "done"
    /\ llm_responses.synonyms.raises
    /\ ~ llm_responses.keywords.raises
    /\ keywords = {}
    /\ returned = <<>>

IsSortedByScore(nodes) ==
    \A a, b \in DOMAIN nodes : a < b => ScoreGe(nodes[a].score, nodes[b].score)

\* `kept` are the k highest-scoring nodes of `nodes`
IsTopOf(kept, nodes, k) ==
    /\ Len(kept) = Min(k, Len(nodes))
    /\ Range(kept) \subseteq Range(nodes)
    /\ \A a, b \in DOMAIN kept : kept[a] = kept[b] => a = b
    /\ \A x \in Range(nodes) \ Range(kept) :
          \A y \in Range(kept) : ScoreGe(y.score, x.score)

\* C10 as stated: for every top_k, None and 0 included, the returned list is
\* in non-increasing score order, has at most top_k entries (any number for
\* None) and holds the top_k highest-scoring nodes.
C10_SortedAndLimitedForEveryTopK ==
    krs_pc = "done" =>
        /\ IsSortedByScore(returned)
        /\ ~ top_k.isNone =>
              /\ Len(returned) <= top_k.value
              /\ IsTopOf(returned, final_nodes, top_k.value)

\* C10: for every top_k of at least 1 the returned list is in non-increasing
\* score order, has at most top_k entries and holds the top_k highest-scoring
\* nodes.
C10_SortedAndLimitedForPositiveTopK ==
    ( krs_pc = "done" /\ Truthy(top_k) ) =>
        /\ IsSortedByScore(returned)
        /\ Len(returned) <= top_k.value
        /\ IsTopOf(returned, final_nodes, top_k.value)

\* three ranked nodes that were not in score order, cut to the best two
C10_Witness ==
    /\ krs_pc = "done"
    /\ top_k = TopKInt(2)
    /\ Len(final_nodes) = 3
    /\ ~ IsSortedByScore(final_nodes)
    /\ Len(returned) = 2
    /\ ~ ScoreGe(returned[2].score, returned[1].score)

\* C11: in the returned list a statement that matches more distinct keywords
\* stands ahead of every statement that matches fewer, whatever the cosine
\* similarities of the statements in tie groups.
C11_MoreMatchesRankAhead ==
    krs_pc = "done" =>
        \A a, b \in DOMAIN returned :
            returned[a].num_keyword_matches > returned[b].num_keyword_matches
               => a < b

(***************************************************************************)
(* Properties of the entity providers.                                     *)
(***************************************************************************)
RECURSIVE SumOfSightings(_, _)
\* the sum of the scores of the sightings of an entity
SumOfSightings(sightings, entity_id) ==
    IF sightings = <<>> THEN 0
    ELSE ( IF Head(sightings).entityId = entity_id
           THEN Head(sightings).score ELSE 0 )
         + SumOfSightings(Tail(sightings), entity_id)

\* the entity ids of a list of scored entities
IdsOf(entities) == { entities[k].entityId : k \in DOMAIN entities }

\* the list returned by _get_entities has one entry per entity sighted, with
\* the sum of the scores of its sightings
ReturnsOnePerEntityWithSum ==
    ep_pc = "done" =>
        LET sightings == FlattenEntities(scored_entity_batches)
        IN  /\ \A a, b \in DOMAIN ep_returned :
                  ep_returned[a].entityId = ep_returned[b].entityId => a = b
            /\ IdsOf(ep_returned) = IdsOf(sightings)
            /\ \A k \in DOMAIN ep_returned :
                  ep_returned[k].score =
                     SumOfSightings(sightings, ep_returned[k].entityId)

\* a step keeps every accumulated entity and does not lower its score
AccumulatedScoresGrow ==
    \A k \in DOMAIN scored_entity_mappings :
        /\ k \in DOMAIN scored_entity_mappings'
        /\ scored_entity_mappings'[k].entityId =
              scored_entity_mappings[k].entityId
        /\ scored_entity_mappings'[k].score >= scored_entity_mappings[k].score

\* C12: _get_entities returns exactly one ScoredEntity per distinct entity
\* id, its score the sum of the scores of all its sightings across the
\* keywords, and the accumulated score of an entity never decreases while
\* further sightings are merged.
C12_OnePerEntityWithSummedScore ==
    /\ [] ReturnsOnePerEntityWithSum
    /\ [][AccumulatedScoresGrow]_vars

\* Alice, sighted with score 3 for each of two keywords, is returned once
\* with score 6
C12_Witness ==
    /\ ep_pc = "done"
    /\ provider = "EntityProvider"
    /\ Len(ep_keywords) = 2
    /\ \A i \in DOMAIN scored_entity_batches :
          ScoredEntity("e1", 3) \in Range(scored_entity_batches[i].entities)
    /\ ScoredEntity("e1", 6) \in Range(ep_returned)

\* the keywords whose lookup has returned
LookedUp ==
    { i \in DOMAIN scored_entity_batches :
        scored_entity_batches[i].status = "done" }

\* the entities that have a relation and whose search string is that of
\* `value`
WithSearchString(value) ==
    { e \in EntityIds :
        /\ entity_graph[e].relations > 0
        /\ search_string_from(entity_graph[e].value) = search_string_from(value) }

\* every entity a lookup returns is scored with the number of its relations,
\* none with 0; the list _get_entities returns is in descending score order
ScoredByRelationsDescending ==
    /\ \A i \in LookedUp :
          \A k \in DOMAIN scored_entity_batches[i].entities :
              LET row == scored_entity_batches[i].entities[k]
              IN  /\ row.score = entity_graph[row.entityId].relations
                  /\ row.score # 0
    /\ \A a, b \in DOMAIN ep_returned :
          a < b => ep_returned[a].score >= ep_returned[b].score

\* C13 as stated: for every keyword the lookup returns the entities whose
\* search string equals the normalised keyword, scored by their relations.
C13_EveryKeywordReturnsAllExactMatches ==
    /\ ScoredByRelationsDescending
    /\ \A i \in LookedUp :
          IdsOf(scored_entity_batches[i].entities) =
             WithSearchString(Split(ep_keywords[i], "|")[1])

\* C13: a keyword without '|' returns the entities whose search string equals
\* the normalised keyword; a keyword 'value|classification' returns those
\* whose search string equals the normalised value and whose class starts
\* with the classification.  Each has the number of its relations as score
\* (Alice 3, Bob 1), none has score 0, a keyword without a match gives an
\* empty list, and _get_entities returns a list in descending score order.
C13_ExactMatchesOfValueAndClass ==
    /\ ScoredByRelationsDescending
    /\ \A i \in LookedUp :
          LET parts    == Split(ep_keywords[i], "|")
              entities == scored_entity_batches[i].entities
          IN  /\ Len(parts) = 1 =>
                    IdsOf(entities) = WithSearchString(ep_keywords[i])
              /\ Len(parts) > 1 =>
                    IdsOf(entities) =
                       { e \in WithSearchString(parts[1]) :
                           StartsWith(entity_graph[e].class, parts[2]) }
              /\ ( entity_graph = GraphWith(0) /\ ep_keywords[i] = <<"a">> )
                    => entities = << ScoredEntity("e1", 3) >>
              /\ ep_keywords[i] = <<"b">>
                    => entities = << ScoredEntity("e2", 1) >>
              /\ ep_keywords[i] = <<"z">> => entities = <<>>

\* "bob" and then "Alice ": Bob with score 1, Alice with score 3, returned
\* with Alice first
C13_Witness ==
    /\ ep_pc = "done"
    /\ provider = "EntityProvider"
    /\ entity_graph = GraphWith(0)
    /\ ep_keywords = << <<"b">>, <<"A", " ">> >>
    /\ scored_entity_batches[1].entities = << ScoredEntity("e2", 1) >>
    /\ scored_entity_batches[2].entities = << ScoredEntity("e1", 3) >>
    /\ ep_returned = << ScoredEntity("e1", 3), ScoredEntity("e2", 1) >>

RECURSIVE SumOverPaths(_, _)
\* the sum of an entity's scores over the lists that surfaced it
SumOverPaths(lists, entity_id) ==
    IF lists = <<>> THEN 0
    ELSE SumOfSightings(Head(lists), entity_id)
         + SumOverPaths(Tail(lists), entity_id)

\* the entities surfaced by some path
SurfacedIds == UNION { IdsOf(surfaced[p]) : p \in DOMAIN surfaced }

\* C14: the list returned by EntityVSSProvider._get_entities holds every
\* entity surfaced by the keyword match, the query similarity or the keyword
\* similarity exactly once, and its score is the sum of the scores with which
\* the paths surfaced it.
C14_PathsAreUnionedWithSummedScores ==
    ep_pc = "vss_done" =>
        /\ IdsOf(vss_returned) = SurfacedIds
        /\ \A a, b \in DOMAIN vss_returned :
              vss_returned[a].entityId = vss_returned[b].entityId => a = b
        /\ \A k \in DOMAIN vss_returned :
              vss_returned[k].score =
                 SumOverPaths(surfaced, vss_returned[k].entityId)

\* the list is in the order of the key (-reranking_score, -score)
IsOrderedByKey(entities) ==
    \A k \in DOMAIN entities :
        k + 1 \in DOMAIN entities =>
            /\ ScoreGe(entities[k].reranking_score,
                       entities[k + 1].reranking_score)
            /\ ScoreGe(entities[k + 1].reranking_score,
                       entities[k].reranking_score)
                  => entities[k].score >= entities[k + 1].score

\* C15: in the list returned by EntityVSSProvider._get_entities an entity's
\* reranking score is at least that of its successor and, when the two are
\* equal, so is its graph score; the list holds the entities of the union,
\* each once.
C15_OrderedByRerankingThenGraphScore ==
    ep_pc = "vss_done" =>
        /\ IsOrderedByKey(vss_returned)
        /\ Len(vss_returned) = Len(all_entities_map)
        /\ IdsOf(vss_returned) = IdsOf(all_entities_map)
        /\ IdsOf(vss_returned) = SurfacedIds
        /\ \A k \in DOMAIN vss_returned :
              \E h \in DOMAIN all_entities_map :
                  /\ all_entities_map[h].entityId = vss_returned[k].entityId
                  /\ all_entities_map[h].score = vss_returned[k].score

\* four entities: the reranking score puts one of graph score 1 ahead of
\* Alice of graph score 3, and two of equal reranking score are in the order
\* of their graph scores
C15_Witness ==
    /\ ep_pc = "vss_done"
    /\ Len(vss_returned) = 4
    /\ \E k \in 1..3 :
          /\ ~ ScoreGe(vss_returned[k + 1].reranking_score,
                       vss_returned[k].reranking_score)
          /\ vss_returned[k].score < vss_returned[k + 1].score
    /\ \E k \in 1..3 :
          /\ vss_returned[k].reranking_score = vss_returned[k + 1].reranking_score
          /\ vss_returned[k].score > vss_returned[k + 1].score

(***************************************************************************)
(* do_graph_search or _retrieve of a SemanticGuidedRetriever: the two      *)
(* retrievers that fan a query out to sub-retrievers on a pool.            *)
(***************************************************************************)
InitFanOut == Init \/ InitGuided

NextFanOut == Next \/ NextGuided

SpecFanOut == InitFanOut /\ [][NextFanOut]_vars

(***************************************************************************)
(* Properties of SemanticGuidedRetriever._retrieve.                        *)
(***************************************************************************)
\* the statement ids of a list of nodes
StatementIds(nodes) == { nodes[k].statementId : k \in DOMAIN nodes }

\* the statements of the outcomes that did not raise
Contributed(outcomes) ==
    UNION { StatementIds(outcomes[k].nodes) : k \in DOMAIN outcomes }

\* C16: _retrieve never raises because an initial retriever or a graph
\* retriever raised, and it returns the statements of every retriever that
\* did not raise.
C16_RaisingSubRetrieverIsIsolated ==
    /\ sg_pc # "raised"
    /\ sg_pc = "done" =>
          /\ Contributed(initial_outputs) \cap statements_found
                \subseteq StatementIds(ordered_nodes)
          /\ Expands(share_results, initial_nodes, graph_outputs) =>
                Contributed(graph_outputs) \cap statements_found
                   \subseteq StatementIds(ordered_nodes)

RECURSIVE NodesOf(_)
\* the nodes of the outcomes, in the order of the retrievers
NodesOf(outcomes) ==
    IF outcomes = <<>> THEN <<>>
    ELSE Head(outcomes).nodes \o NodesOf(Tail(outcomes))

RECURSIVE FirstByStatement(_, _)
\* the first node of every statement, in the order of appearance
FirstByStatement(seen, nodes) ==
    IF nodes = <<>> THEN <<>>
    ELSE IF Head(nodes).statementId \in seen
         THEN FirstByStatement(seen, Tail(nodes))
         ELSE << Head(nodes) >>
              \o FirstByStatement(seen \cup { Head(nodes).statementId },
                                  Tail(nodes))

\* the nodes _retrieve accepts, as a function of what the retrievers give
AcceptedFor(initial, graph, share) ==
    LET first == FirstByStatement({}, NodesOf(initial))
    IN  IF share /\ first # <<>>
        THEN FirstByStatement({}, first \o NodesOf(graph))
        ELSE first

RECURSIVE InSubmissionOrder(_)
\* the nodes of every subquery's sub-retrievers, in the order of the
\* subqueries and of the sub-retrievers
InSubmissionOrder(batches) ==
    IF batches = <<>> THEN <<>>
    ELSE Flatten(Head(batches)) \o InSubmissionOrder(Tail(batches))

RECURSIVE FirstOccurrences(_, _)
FirstOccurrences(seen, ids) ==
    IF ids = <<>> THEN <<>>
    ELSE IF Head(ids) \in seen THEN FirstOccurrences(seen, Tail(ids))
    ELSE << Head(ids) >> \o FirstOccurrences(seen \cup { Head(ids) }, Tail(ids))

\* what the two retrievers return is fixed by what their sub-retrievers give,
\* taken in the order in which the sub-retrievers were submitted
ResultIsFunctionOfOutputs ==
    /\ pc = "done" =>
          search_results =
             FirstOccurrences({}, InSubmissionOrder(scored_node_batches))
    /\ sg_pc = "done" =>
          ordered_nodes =
             OrderedNodes(AcceptedFor(initial_outputs, graph_outputs,
                                      share_results),
                          statements_found)

IsSortedWithinSources(nodes) ==
    \A a, b \in DOMAIN nodes :
        ( a < b /\ SourceOf(nodes[a].statementId) = SourceOf(nodes[b].statementId) )
           => ScoreGe(nodes[a].score, nodes[b].score)

NoDuplicateStatements(nodes) ==
    \A a, b \in DOMAIN nodes : nodes[a].statementId = nodes[b].statementId => a = b

IsPrefix(a, b) == Len(a) <= Len(b) /\ SubSeq(b, 1, Len(a)) = a

\* the nodes some sub-retriever gives
ProducedNodes == Range(NodesOf(initial_outputs)) \cup Range(NodesOf(graph_outputs))

\* C18: the accepted nodes never hold a statement twice, a step only appends
\* to them (an accepted entry is never removed, replaced or moved), and the
\* returned list has no duplicate statement ids and only nodes that a
\* sub-retriever produced.
C18_DeduplicationIsMonotonic ==
    /\ [] ( /\ NoDuplicateStatements(initial_nodes)
            /\ NoDuplicateStatements(all_nodes)
            /\ NoDuplicateStatements(ordered_nodes)
            /\ seen_statement_ids =
                  StatementIds(initial_nodes) \cup StatementIds(all_nodes)
            /\ Range(ordered_nodes) \subseteq ProducedNodes )
    /\ [][ /\ IsPrefix(initial_nodes, initial_nodes')
           /\ IsPrefix(all_nodes, all_nodes') ]_vars

\* S1 came from the first initial retriever, again from the second and again
\* from a graph retriever; the returned list holds the first one only
C18_Witness ==
    /\ sg_pc = "done"
    /\ initial_outputs[1].nodes =
          << ScoredNode("StatementCosineSimilaritySearch", "S1", 1, 2) >>
    /\ initial_outputs[2].nodes =
          << ScoredNode("KeywordRankingSearch", "S2", 1, 1),
             ScoredNode("KeywordRankingSearch", "S1", 1, 4) >>
    /\ share_results
    /\ graph_outputs # <<>>
    /\ graph_outputs[1].nodes =
          << ScoredNode("SemanticBeamGraphSearch", "S1", 1, 2) >>
    /\ StatementIds(ordered_nodes) = {"S1", "S2"}
    /\ Len(ordered_nodes) = 2
    /\ ScoredNode("StatementCosineSimilaritySearch", "S1", 1, 2)
          \in Range(ordered_nodes)

(***************************************************************************)
(* Properties of the post-processors.                                      *)
(***************************************************************************)
\* the topics of a collection, as they are now
TopicsOf(collection) == [ k \in DOMAIN collection |-> topic_heap[collection[k]] ]

\* the topics of the collection passed in, as they were before the call
TopicsPassedIn == [ k \in DOMAIN input_collection |-> input_topics[input_collection[k]] ]

\* C19: after _process_results has returned, the collection that was passed
\* in has the topic ids, chunk metadata and chunk values it had before the
\* call.
C19_InputCollectionIsUnchanged ==
    proc_pc = "done" => TopicsOf(input_collection) = TopicsPassedIn

\* what a processor makes of a list of topics
Processed(topics, processor) ==
    [ k \in DOMAIN topics |-> TopicHandler(processor, topics[k]) ]

ClearThenUpdate(topics) ==
    Processed(Processed(topics, "ClearTopicIds"), "UpdateChunkMetadata")

UpdateThenClear(topics) ==
    Processed(Processed(topics, "UpdateChunkMetadata"), "ClearTopicIds")

\* every topicId is None, 'value' and 'chunkId' are gone from every chunk's
\* metadata and its other keys are kept, a non-empty metadata value has
\* become the chunk's value and any other chunk has the value it had
IsCleanedUp(topics, before) ==
    \A k \in DOMAIN topics :
        /\ topics[k].topicId = TopicIdNone
        /\ \A c \in DOMAIN topics[k].chunks :
              LET chunk == topics[k].chunks[c]
                  old   == before[k].chunks[c]
              IN  /\ DOMAIN chunk.metadata =
                        DOMAIN old.metadata \ {"value", "chunkId"}
                  /\ \A key \in DOMAIN chunk.metadata :
                        chunk.metadata[key] = old.metadata[key]
                  /\ chunk.value =
                        IF "value" \in DOMAIN old.metadata
                           /\ old.metadata["value"] # ""
                        THEN old.metadata["value"]
                        ELSE old.value

\* C20: for every collection, ClearTopicIds then UpdateChunkMetadata gives
\* the same collection as UpdateChunkMetadata then ClearTopicIds: every
\* topicId is None, 'value' and 'chunkId' are removed from each chunk's
\* metadata and a non-empty metadata value has become the chunk's value.
C20_ProcessorsCommute ==
    ( proc_pc = "done" /\ Len(pipeline) = 2 ) =>
        /\ ClearThenUpdate(TopicsPassedIn) = UpdateThenClear(TopicsPassedIn)
        /\ TopicsOf(processed) = ClearThenUpdate(TopicsPassedIn)
        /\ TopicsOf(processed) = UpdateThenClear(TopicsPassedIn)
        /\ IsCleanedUp(TopicsOf(processed), TopicsPassedIn)

\* UpdateChunkMetadata and then ClearTopicIds on a topic with an id whose
\* chunk has the metadata keys 'value', 'chunkId' and 'page'
C20_Witness ==
    /\ proc_pc = "done"
    /\ pipeline = << "UpdateChunkMetadata", "ClearTopicIds" >>
    /\ TopicsPassedIn[1].topicId = "t1"
    /\ TopicsPassedIn[1].chunks[1].value = "text"
    /\ DOMAIN TopicsPassedIn[1].chunks[1].metadata = {"value", "chunkId", "page"}
    /\ TopicsPassedIn[1].chunks[1].metadata["value"] = "promoted"
    /\ TopicsOf(processed)[1].topicId = TopicIdNone
    /\ TopicsOf(processed)[1].chunks[1].value = "promoted"
    /\ DOMAIN TopicsOf(processed)[1].chunks[1].metadata = {"page"}

(***************************************************************************)
(* Properties of the S3 vector indexes.                                    *)
(***************************************************************************)
Raised == s3_result.raised # NoError

\* the vectors of the input that exceed the metadata-tag limit
OverTagLimit(vector_data) ==
    { i \in DOMAIN vector_data :
        /\ vector_data[i].metadata.is_dict
        /\ vector_data[i].metadata.fields + Len(NON_FILTERABLE_FIELDS)
             > MAX_METADATA_TAGS }

\* C21: a search_vectors call with max_results above MAX_RESULTS raises an
\* error that carries the requested value and the limit and issues no query;
\* an ingest_vectors call with a vector over the metadata-tag limit raises
\* before any put_vectors call, so that no vector of the input is written.
C21_LimitsFailFast ==
    s3_pc = "done" =>
        /\ ( /\ s3_request.op = "search_vectors"
             /\ s3_request.max_results > MAX_RESULTS )
           => /\ Raised
              /\ s3_result.raised.type = "IndexError"
              /\ s3_result.raised.max_results = s3_request.max_results
              /\ s3_result.raised.limit = MAX_RESULTS
              /\ s3_calls = << >>
        /\ ( /\ s3_request.op = "search_vectors"
             /\ s3_request.max_results <= MAX_RESULTS )
           => /\ ~ Raised
              /\ Len(s3_calls) = 1
              /\ s3_calls[1].topK = s3_request.max_results
        /\ ( /\ s3_request.op = "ingest_vectors"
             /\ OverTagLimit(s3_request.vector_data) # {} )
           => /\ Raised
              /\ s3_calls = << >>

\* a search above the limit has raised, and an input whose last vector alone
\* is over the tag limit has been refused
C21_Witness ==
    /\ s3_pc = "done"
    /\ s3_request.op = "ingest_vectors"
    /\ Len(s3_request.vector_data) = 2
    /\ OverTagLimit(s3_request.vector_data) = { 2 }
    /\ s3_request.batch_size = << 1 >>
    /\ s3_result.raised.type = "ValueError"
    /\ s3_calls = << >>

RECURSIVE KeysOfFailed(_)
KeysOfFailed(calls) ==
    IF calls = << >> THEN << >>
    ELSE ( IF Head(calls).outcome = "raises" THEN Head(calls).keys
           ELSE << >> ) \o KeysOfFailed(Tail(calls))

\* the ids of the batches whose delete call raised
IdsOfFailedBatches == KeysOfFailed(s3_calls)

\* C27: the report of delete_vectors satisfies successful_deletions +
\* failed_deletions = total_requested, failed_vector_ids holds exactly the
\* ids of the batches whose delete call raised, and every batch is attempted
\* whatever happened to the batches before it.
C27_ReportAccountsForEveryId ==
    ( s3_pc = "done" /\ s3_request.op = "delete_vectors" ) =>
        /\ s3_result.report.successful_deletions
             + s3_result.report.failed_deletions
             = s3_result.report.total_requested
        /\ s3_result.report.failed_vector_ids = IdsOfFailedBatches
        /\ Len(s3_calls)
             = NumBatches(s3_request.vector_ids, s3_request.batch_size)

\* the same without the sum: the failed ids are those of the failed batches
\* and every batch is attempted
C27_FailedIdsAndAttempts ==
    ( s3_pc = "done" /\ s3_request.op = "delete_vectors" ) =>
        /\ s3_result.report.failed_vector_ids = IdsOfFailedBatches
        /\ Len(s3_calls)
             = NumBatches(s3_request.vector_ids, s3_request.batch_size)

(***************************************************************************)
(* Properties of GraphQueryRetriever.                                      *)
(***************************************************************************)
\* the text holds the piece
Contains(text, piece) == \E i \in DOMAIN text : text[i] = piece

ErrorPieces == { "Error executing query: ", "\nError: " }

\* C22: when execute_query raises, retrieve(query, return_answers=True)
\* raises nothing, returns no answers and a context whose first element
\* holds the exception's type name and its message; when the query succeeds,
\* the answers are the rows returned and the context holds no error text.
C22_ErrorIsReturnedAsContext ==
    ( gq_retrieves > 0 /\ gq_returned.return_answers ) =>
        /\ ~ gq_returned.raised
        /\ gq_executed.raises =>
             /\ gq_returned.answers = << >>
             /\ Contains(gq_returned.context[1], gq_executed.type)
             /\ Contains(gq_returned.context[1], gq_executed.message)
        /\ ~ gq_executed.raises =>
             /\ gq_returned.answers = gq_executed.rows
             /\ \A i \in DOMAIN gq_returned.context :
                    \A piece \in ErrorPieces \cup ExceptionTypes :
                        ~ Contains(gq_returned.context[i], piece)

\* a query that raised SyntaxError has been answered with a context
C22_Witness ==
    /\ gq_retrieves > 0
    /\ gq_returned.return_answers
    /\ gq_executed.raises
    /\ gq_executed.type = "SyntaxError"
    /\ ~ gq_returned.raised
    /\ gq_returned.answers = << >>

(***************************************************************************)
(* Properties of LLMCache.                                                 *)
(***************************************************************************)
\* the last predict call raised ModelError and its key has no cache entry
FailureLeavesNoEntry ==
    last_predict.raised = "ModelError" =>
        /\ last_predict.llm_invoked
        /\ ~ Exists(cache_dir, last_predict.cache_key)

\* a response served from the cache is the content of the file of its key
ServedFromOwnKey ==
    ( last_predict.raised = "None" /\ ~ last_predict.llm_invoked ) =>
        /\ Exists(cache_dir, last_predict.cache_key)
        /\ last_predict.response = ReadText(cache_dir[last_predict.cache_key])

\* C23: with caching enabled, once predict has returned a response for a
\* key, every later predict call with that key returns that same response
\* without invoking the LLM; a call with another key is not served that
\* entry; a call whose LLM invocation fails raises ModelError and leaves no
\* cache entry for its key.
C23_PredictIsMemoized ==
    ( enable_cache /\ predicts > 0 ) =>
        /\ last_predict.returned_before # NoResponse =>
             /\ last_predict.raised = "None"
             /\ ~ last_predict.llm_invoked
             /\ last_predict.response = last_predict.returned_before
        /\ ServedFromOwnKey
        /\ FailureLeavesNoEntry

\* the same, where the later calls return the first response as it reads
\* back from the file it was written to
C23_PredictIsMemoizedUpToLineEndings ==
    ( enable_cache /\ predicts > 0 ) =>
        /\ last_predict.returned_before # NoResponse =>
             /\ last_predict.raised = "None"
             /\ ~ last_predict.llm_invoked
             /\ last_predict.response
                  = ReadText(WriteText(last_predict.returned_before, linesep))
        /\ ServedFromOwnKey
        /\ FailureLeavesNoEntry

(***************************************************************************)
(* Properties of EntityGraphBuilder.                                       *)
(***************************************************************************)
\* the entities whose properties the entity-insert queries set
InsertedEntities ==
    UNION { Range(egb_queries[i].merged) : i \in DOMAIN egb_queries }

\* the identifiers the domain-label queries MERGE
LabelledIds ==
    { egb_queries[i].entityId :
        i \in { j \in DOMAIN egb_queries : egb_queries[j].kind = "label" } }

\* the labels the domain-label queries set
LabelsSet ==
    { egb_queries[i].label :
        i \in { j \in DOMAIN egb_queries : egb_queries[j].kind = "label" } }

BuildHasRun == egb_pc = "done" /\ egb_fact # NoFact

\* C24: with include_local_entities False, no query of build creates or
\* updates an entity whose classification is the local-entity
\* classification, and a fact whose subject is a local entity causes no
\* query at all.
C24_LocalEntitiesAreNotWritten ==
    ( BuildHasRun /\ ~ egb_kwargs.include_local_entities ) =>
        /\ \A e \in InsertedEntities : e.class # LOCAL_ENTITY_CLASSIFICATION
        /\ label_from(LOCAL_ENTITY_CLASSIFICATION) \notin LabelsSet
        /\ egb_fact.subject.classification = LOCAL_ENTITY_CLASSIFICATION
             => egb_queries = << >>

\* the same for the facts whose object is not a local entity
C24_LocalSubjectsAndComplementsAreNotWritten ==
    ( /\ BuildHasRun
      /\ ~ egb_kwargs.include_local_entities
      /\ egb_fact.object.classification # LOCAL_ENTITY_CLASSIFICATION ) =>
        /\ \A e \in InsertedEntities : e.class # LOCAL_ENTITY_CLASSIFICATION
        /\ label_from(LOCAL_ENTITY_CLASSIFICATION) \notin LabelsSet
        /\ egb_fact.subject.classification = LOCAL_ENTITY_CLASSIFICATION
             => egb_queries = << >>

C28_MergedEntityHasPropertiesWithoutBoth ==
    ( /\ BuildHasRun
      /\ ~ ( IsSet(egb_fact.object) /\ IsSet(egb_fact.complement) ) ) =>
        LabelledIds \subseteq { e.entityId : e \in InsertedEntities }

(***************************************************************************)
(* Keyword extraction that yields nothing.                                 *)
(***************************************************************************)
\* the LLM returned an empty or whitespace-only response
IsBlank(answer) == ~ answer.raises /\ Strip(answer.text) = << >>

AnLlmCallRaised ==
    llm_responses.keywords.raises \/ llm_responses.synonyms.raises

ExtractionYieldsNothing ==
    \/ AnLlmCallRaised
    \/ IsBlank(llm_responses.keywords) /\ IsBlank(llm_responses.synonyms)

\* C25: when both prompts return an empty or whitespace-only response, or
\* an LLM call raises, get_keywords returns the empty set, never a set that
\* holds the empty string, and _retrieve returns [] without querying the
\* graph.
C25_NothingExtractedIsTheEmptySet ==
    ( krs_pc \notin { "none", "start" } /\ ExtractionYieldsNothing ) =>
        /\ keywords = {}
        /\ << >> \notin keywords
        /\ krs_pc = "done"
        /\ returned = << >>
        /\ execute_query_calls = 0

\* the same for a raising LLM call alone
C25_RaisingCallGivesTheEmptySet ==
    ( krs_pc \notin { "none", "start" } /\ AnLlmCallRaised ) =>
        /\ keywords = {}
        /\ krs_pc = "done"
        /\ returned = << >>
        /\ execute_query_calls = 0

(***************************************************************************)
(* Properties of the concurrent graph expansion.                           *)
(***************************************************************************)
\* all_nodes of a call that runs alone
RECURSIVE ExpandedAlone(_, _, _)
ExpandedAlone(nodes, initial, retrievers_left) ==
    IF retrievers_left = 0 THEN nodes
    ELSE ExpandedAlone(AppendUnseen(nodes, ExpandFrom(initial)), initial,
                       retrievers_left - 1)

ResultAlone(c) ==
    IF sn_share_results /\ sn_initial_nodes[c] # << >>
    THEN ExpandedAlone(sn_initial_nodes[c], sn_initial_nodes[c],
                       Len(sn_graph_retrievers))
    ELSE sn_initial_nodes[c]

\* C26: when two retrieve calls run concurrently on the same retriever
\* objects, each graph retriever expands only from the initial nodes of its
\* own call, and each call's result equals the result it gives alone.
C26_CallsExpandFromTheirOwnNodes ==
    \A c \in DOMAIN sn_pc :
        /\ \A k \in DOMAIN sn_expanded_from[c] :
               sn_expanded_from[c][k] = sn_initial_nodes[c]
        /\ sn_pc[c] = "done" => sn_all_nodes[c] = ResultAlone(c)

(***************************************************************************)
(* Properties of StatementEnhancementPostProcessor.                        *)
(***************************************************************************)
\* the LLM call of the i-th node raised or answered without the tags
NotEnhanceable(i) ==
    enh_responses[i].raises \/ ~ HasMatch(enh_responses[i].text)

\* C29: _postprocess_nodes returns a list of the length of its input whose
\* i-th element is the i-th input statement with the same score, whatever
\* the order in which the workers finish; a node whose LLM call raises or
\* whose response has no <modified_statement> tag is returned unchanged and
\* does not fail the other nodes.
C29_EnhancementKeepsOrderAndScores ==
    /\ enh_pc # "raised"
    /\ enh_pc = "done" =>
         /\ Len(enh_returned) = Len(enh_nodes)
         /\ \A i \in DOMAIN enh_nodes :
                /\ enh_returned[i].statement = enh_nodes[i].statement
                /\ enh_returned[i].score = enh_nodes[i].score
                /\ NotEnhanceable(i) => enh_returned[i] = enh_nodes[i]
                /\ ~ NotEnhanceable(i) =>
                       enh_returned[i].text
                         = Strip(Group1(enh_responses[i].text))

\* the worker of the second node finished first, the LLM call of the first
\* node raised and the second statement was enhanced
C29_Witness ==
    /\ enh_pc = "done"
    /\ enh_order = << 2, 1 >>
    /\ enh_nodes[1].statement # enh_nodes[2].statement
    /\ enh_responses[1].raises
    /\ ~ NotEnhanceable(2)
    /\ enh_returned[1] = enh_nodes[1]
    /\ enh_returned[2].text = << "B" >>
    /\ enh_returned[2].text # enh_nodes[2].text

(***************************************************************************)
(* The reranking scores of the entities EntityVSSProvider returns.         *)
(***************************************************************************)
\* what the final rerank says of the k-th entity returned
FinalRerankOf(k) ==
    all_reranked_entity_names[
        EntityName(entity_graph, vss_returned[k].entityId)]

DefaultRerankingScore == [ num |-> 0, den |-> 1 ]

\* C30: in the list _get_entities returns, an entity whose name is in the
\* output of the final rerank carries exactly that score, and an entity
\* whose name is absent from it carries the default score, never a score
\* left over from the rerank of _get_entities_for_values.
C30_ScoresComeFromTheFinalRerank ==
    ep_pc = "vss_done" =>
        \A k \in DOMAIN vss_returned :
            vss_returned[k].reranking_score
              = IF FinalRerankOf(k).ranked THEN FinalRerankOf(k).score
                ELSE DefaultRerankingScore

\* the same for the entities the final rerank names
C30_NamedEntitiesCarryTheFinalScore ==
    ep_pc = "vss_done" =>
        \A k \in DOMAIN vss_returned :
            FinalRerankOf(k).ranked =>
                vss_returned[k].reranking_score = FinalRerankOf(k).score

====
